---- MODULE Spec2Model ----
(***************************************************************************)
(* Public Partner Search Tool: the filter engine of the three Streamlit    *)
(* variants (src/App.py, src/App4.py, src/App5.py).                        *)
(*                                                                         *)
(* A Python string is a sequence of one-character strings, so that lower,  *)
(* strip, split and contains are computed character by character.  A cell  *)
(* of a table is a record: a missing value (NaN), a string or a number.    *)
(***************************************************************************)
EXTENDS Integers, Sequences, FiniteSets, TLC

VARIABLES
    app,        \* which script the session runs: "App", "App4" or "App5"
    df,         \* the table the run loads (module-level df of the script), as
                \* it is given to filter_dataframe
    filters,    \* the filters dict the script builds from the widgets
    results,    \* what filter_dataframe(df, filters) did in the last run: the
                \* table it returned and the table of the caller as it left it
    pc,         \* how far the current run of the script has come
    load        \* what the run has bound so far: the lookup, the resolved
                \* columns, the error shown and the option lists

vars == <<app, df, filters, results, pc, load>>

---------------------------------------------------------------------------
(* Python strings                                                          *)

UpperChars == <<"A", "B", "C", "D", "E", "F", "G", "H", "I", "J", "K", "L", "M", "N", "O", "P", "Q", "R", "S", "T", "U", "V", "W", "X", "Y", "Z">>
LowerChars == <<"a", "b", "c", "d", "e", "f", "g", "h", "i", "j", "k", "l", "m", "n", "o", "p", "q", "r", "s", "t", "u", "v", "w", "x", "y", "z">>
DigitChars == <<"0", "1", "2", "3", "4", "5", "6", "7", "8", "9">>

\* Python's None, where a string is expected: no string has an element of
\* more than one character, so this value equals no string.
PyNone == <<"None">>

\* bool(x) of a string or None
Truthy(x) == x # PyNone /\ x # <<>>

\* str.lower() on one character
LowerTable == [c \in {UpperChars[i] : i \in 1..Len(UpperChars)} |->
                 LowerChars[CHOOSE i \in 1..Len(UpperChars) : UpperChars[i] = c]]

LowerChar(c) == IF c \in DOMAIN LowerTable THEN LowerTable[c] ELSE c

\* str.lower()
Lower(s) == SubSeq([i \in 1..Len(s) |-> LowerChar(s[i])], 1, Len(s))

IsSpace(c) == c \in {" ", "\t", "\n"}

\* str.strip()
RECURSIVE LStrip(_)
LStrip(s) == IF s # <<>> /\ IsSpace(Head(s)) THEN LStrip(Tail(s)) ELSE s

RECURSIVE RStrip(_)
RStrip(s) ==
    IF s # <<>> /\ IsSpace(s[Len(s)]) THEN RStrip(SubSeq(s, 1, Len(s) - 1)) ELSE s

Strip(s) == RStrip(LStrip(s))

\* str.split(";"): the parts between the separators, empty parts included
RECURSIVE SplitSemi(_)
SplitSemi(s) ==
    LET at == {i \in 1..Len(s) : s[i] = ";"}
        first == CHOOSE i \in at : \A j \in at : i <= j
    IN IF at = {} THEN <<s>>
       ELSE <<SubSeq(s, 1, first - 1)>> \o SplitSemi(SubSeq(s, first + 1, Len(s)))

\* re.search(pat, s) for the patterns of the model's alphabet: every
\* character of the pattern stands for itself, except "." which stands for
\* any one character.  ic is re.IGNORECASE (str.contains(..., case=False)).
ReSearch(pat, s, ic) ==
    \E i \in 0..(Len(s) - Len(pat)) :
        \A j \in 1..Len(pat) :
            \/ pat[j] = "."
            \/ IF ic THEN LowerChar(pat[j]) = LowerChar(s[i + j])
                     ELSE pat[j] = s[i + j]

\* p in s: p occurs in s as a run of consecutive characters
IsSubstring(p, s) == \E i \in 0..(Len(s) - Len(p)) : SubSeq(s, i + 1, i + Len(p)) = p

\* str(n) of a non-negative int
RECURSIVE IntToStr(_)
IntToStr(n) ==
    IF n < 10 THEN <<DigitChars[n + 1]>>
    ELSE IntToStr(n \div 10) \o <<DigitChars[(n % 10) + 1]>>

IsDigit(c) == c \in {DigitChars[i] : i \in 1..Len(DigitChars)}

RECURSIVE StrToInt(_)
StrToInt(s) ==
    IF s = <<>> THEN 0
    ELSE 10 * StrToInt(SubSeq(s, 1, Len(s) - 1))
         + (CHOOSE i \in 1..Len(DigitChars) : DigitChars[i] = s[Len(s)]) - 1

---------------------------------------------------------------------------
(* Cells, rows and tables                                                  *)

NaN == [k |-> "nan", s |-> <<>>, n |-> 0]
Str(s) == [k |-> "str", s |-> s, n |-> 0]
Num(n) == [k |-> "num", s |-> <<>>, n |-> n]

S_nan == <<"n", "a", "n">>

\* Series.astype(str) on one cell: a missing value becomes the text "nan"
AsStr(c) ==
    CASE c.k = "nan" -> S_nan
      [] c.k = "str" -> c.s
      [] c.k = "num" -> IntToStr(c.n)

\* pd.to_numeric(..., errors='coerce') on one cell: a number or NaN
ToNumeric(c) ==
    CASE c.k = "num" -> c
      [] c.k = "nan" -> NaN
      [] c.k = "str" ->
            IF c.s # <<>> /\ \A i \in 1..Len(c.s) : IsDigit(c.s[i])
            THEN Num(StrToInt(c.s))
            ELSE NaN

Range(q) == {q[i] : i \in 1..Len(q)}

\* A table is [cols |-> the column names in order, rows |-> the rows in
\* order]; a row is [idx |-> its index label, cells |-> column -> cell].
Cols(t) == Range(t.cols)

(* The frame of a call of filter_dataframe: cols and rows are the table   *)
(* its local name is bound to, arg is the table of the caller as the call  *)
(* has left it so far, and alias tells whether the local name is still     *)
(* bound to the caller's object, so that a statement that changes the      *)
(* local table in place changes the caller's table with it.                *)

\* d = d[mask]: the rows passing the mask, in their order, as a new object
Keep(st, P(_)) == [st EXCEPT !.rows = SelectSeq(st.rows, P), !.alias = FALSE]

\* d[c] = ...: column c is overwritten, or appended as the last column, in
\* place
SetCol(st, c, F(_)) ==
    LET cols == IF c \in Range(st.cols) THEN st.cols ELSE Append(st.cols, c)
        rows == [i \in 1..Len(st.rows) |->
                    [st.rows[i] EXCEPT
                        !.cells = [x \in Cols(st) \cup {c} |->
                                     IF x = c THEN F(st.rows[i])
                                     ELSE st.rows[i].cells[x]]]]
    IN [st EXCEPT !.cols = cols, !.rows = rows,
                  !.arg = IF st.alias THEN [cols |-> cols, rows |-> rows] ELSE @]

\* d.drop(columns=[c], inplace=True)
DropCol(st, c) ==
    LET cols == SelectSeq(st.cols, LAMBDA x : x # c)
        rows == [i \in 1..Len(st.rows) |->
                    [st.rows[i] EXCEPT
                        !.cells = [x \in Cols(st) \ {c} |-> st.rows[i].cells[x]]]]
    IN [st EXCEPT !.cols = cols, !.rows = rows,
                  !.arg = IF st.alias THEN [cols |-> cols, rows |-> rows] ELSE @]

\* d = d.drop(columns=[c]): the table without column c, as a new object
WithoutCol(st, c) == [DropCol(st, c) EXCEPT !.alias = FALSE, !.arg = st.arg]

---------------------------------------------------------------------------
(* filter_dataframe.  A call is folded over its steps; the value passed    *)
(* from step to step is the working copy dfc with the outcome so far:      *)
(*   warn: st.error("Max Age cannot be less than Min Age") was shown,      *)
(*   ret:  the function has returned (the early return of the age step),   *)
(*   exc:  the exception the call raised, "" if none.                      *)

S_Any == <<"A", "n", "y">>
S_none == <<"n", "o", "n", "e">>
S_num_temp == <<"_", "n", "u", "m", "_", "t", "e", "m", "p">>
S_num == <<"_", "n", "u", "m">>

\* None where min_age / max_age is expected
AgeNone == -1

\* dfc = d: the local name bound to the caller's table itself
Copy_Alias(d) ==
    [cols |-> d.cols, rows |-> d.rows, warn |-> FALSE, ret |-> FALSE, exc |-> "",
     arg |-> d, alias |-> TRUE]

\* dfc = d.copy()
Copy(d) ==
    [cols |-> d.cols, rows |-> d.rows, warn |-> FALSE, ret |-> FALSE, exc |-> "",
     arg |-> d, alias |-> FALSE]

Live(st) == st.exc = "" /\ ~st.ret

\* d[col] on a column the table does not have (None included)
KeyError(st) == [st EXCEPT !.exc = "KeyError"]

\* the criterion of a select box or text box is set: truthy and not "Any"
Active(crit) == Truthy(crit) /\ crit # S_Any

(* ---- src/App4.py ---- *)

\* dfc[col].astype(str).str.lower().str.strip() == crit.lower().strip()
ExactMatch4(cell, crit) == Strip(Lower(AsStr(cell))) = Strip(Lower(crit))

\* pd.concat of the rows matching in each disease column in turn
RECURSIVE ConcatPerColumn(_, _, _)
ConcatPerColumn(rows, cs, keyword) ==
    IF cs = <<>> THEN <<>>
    ELSE SelectSeq(rows, LAMBDA r : ReSearch(keyword, Strip(Lower(AsStr(r.cells[Head(cs)]))), FALSE))
         \o ConcatPerColumn(rows, Tail(cs), keyword)

DiseaseStep4_Concat(st, f) ==
    IF ~Live(st) \/ ~Active(f.disease_area) \/ f.disease_cols = <<>> THEN st
    ELSE [st EXCEPT !.rows = ConcatPerColumn(st.rows, f.disease_cols, Strip(Lower(f.disease_area))),
                    !.alias = FALSE]

DiseaseStep4(st, f) ==
    IF ~Live(st) \/ ~Active(f.disease_area) \/ f.disease_cols = <<>> THEN st
    ELSE LET keyword == Strip(Lower(f.disease_area))
         IN Keep(st, LAMBDA r :
                \E i \in 1..Len(f.disease_cols) :
                    /\ f.disease_cols[i] \in Cols(st)
                    /\ ReSearch(keyword, Strip(Lower(AsStr(r.cells[f.disease_cols[i]]))), FALSE))

ExactStep4(st, crit, col) ==
    IF ~Live(st) \/ ~Active(crit) \/ col \notin Cols(st) THEN st
    ELSE Keep(st, LAMBDA r : ExactMatch4(r.cells[col], crit))

\* the "None" branch: both statements keep the rows whose cell is not one
\* of "none", "nan", ""
CarerNoneKept4(cell) == Strip(Lower(AsStr(cell))) \notin {S_none, S_nan, <<>>}

\* the other branch: some non-blank part of the cell equals the selection
CarerPartKept4(cell, selected) ==
    LET parts == SplitSemi(AsStr(cell))
    IN \E i \in 1..Len(parts) :
          /\ Strip(parts[i]) # <<>>
          /\ Lower(selected) = Lower(Strip(parts[i]))

CarerStep4(st, f) ==
    IF ~Live(st) \/ ~Active(f.carer) \/ f.carer_col \notin Cols(st) THEN st
    ELSE IF Lower(f.carer) = S_none
         THEN Keep(Keep(st, LAMBDA r : CarerNoneKept4(r.cells[f.carer_col])),
                   LAMBDA r : CarerNoneKept4(r.cells[f.carer_col]))
         ELSE Keep(st, LAMBDA r : CarerPartKept4(r.cells[f.carer_col], f.carer))

\* (dfc[numeric_col] >= min_age) & (dfc[numeric_col] <= max_age)
\* variant of InRange with strict bounds
InRange_Exclusive(cell, lo, hi) == cell.k = "num" /\ cell.n > lo /\ cell.n < hi

InRange(cell, lo, hi) == cell.k = "num" /\ cell.n >= lo /\ cell.n <= hi

\* variant of AgeStep4 that reports an inverted range and carries on
AgeStep4_NoEarlyReturn(st, f) ==
    IF ~Live(st) \/ f.min_age = AgeNone \/ f.max_age = AgeNone THEN st
    ELSE IF f.min_age = 0 /\ f.max_age = 0 THEN st
    ELSE IF f.max_age < f.min_age THEN [st EXCEPT !.warn = TRUE]
    ELSE IF f.age_col \notin Cols(st) THEN st
    ELSE LET numeric_col == f.age_col \o S_num_temp
             withNum == SetCol(st, numeric_col, LAMBDA r : ToNumeric(r.cells[f.age_col]))
             kept == Keep(withNum, LAMBDA r : InRange(r.cells[numeric_col], f.min_age, f.max_age))
         IN DropCol(kept, numeric_col)

\* variant of AgeStep4 that returns early when the age column is not in the
\* table
AgeStep4_ReturnsWhenUnmapped(st, f) ==
    IF ~Live(st) \/ f.min_age = AgeNone \/ f.max_age = AgeNone THEN st
    ELSE IF f.min_age = 0 /\ f.max_age = 0 THEN st
    ELSE IF f.max_age < f.min_age THEN [st EXCEPT !.warn = TRUE, !.ret = TRUE]
    ELSE IF f.age_col \notin Cols(st) THEN [st EXCEPT !.ret = TRUE]
    ELSE LET numeric_col == f.age_col \o S_num_temp
             withNum == SetCol(st, numeric_col, LAMBDA r : ToNumeric(r.cells[f.age_col]))
             kept == Keep(withNum, LAMBDA r : InRange(r.cells[numeric_col], f.min_age, f.max_age))
         IN DropCol(kept, numeric_col)

AgeStep4(st, f) ==
    IF ~Live(st) \/ f.min_age = AgeNone \/ f.max_age = AgeNone THEN st
    ELSE IF f.min_age = 0 /\ f.max_age = 0 THEN st
    ELSE IF f.max_age < f.min_age THEN [st EXCEPT !.warn = TRUE, !.ret = TRUE]
    ELSE IF f.age_col \notin Cols(st) THEN st
    ELSE LET numeric_col == f.age_col \o S_num_temp
             withNum == SetCol(st, numeric_col, LAMBDA r : ToNumeric(r.cells[f.age_col]))
             kept == Keep(withNum, LAMBDA r : InRange(r.cells[numeric_col], f.min_age, f.max_age))
         IN DropCol(kept, numeric_col)

\* dfc[col].astype(str).str.contains(search, case=False, na=False)
Contains(cell, search) == ReSearch(search, AsStr(cell), TRUE)

NameStep4(st, f) ==
    IF ~Live(st) \/ ~Truthy(f.name_search) \/ f.name_col \notin Cols(st) THEN st
    ELSE Keep(st, LAMBDA r : Contains(r.cells[f.name_col], f.name_search))

filter_dataframe4(d, f) ==
    LET s1 == DiseaseStep4(Copy(d), f)
        s2 == ExactStep4(s1, f.gender, f.gender_col)
        s3 == ExactStep4(s2, f.ethnicity, f.ethnicity_col)
        s4 == CarerStep4(s3, f)
        s5 == ExactStep4(s4, f.sexuality, f.sexuality_col)
        s6 == AgeStep4(s5, f)
    IN NameStep4(s6, f)

(* ---- src/App5.py ---- *)

DiseaseStep5(st, f) ==
    IF ~Live(st) \/ ~Active(f.disease_area) \/ f.disease_cols = <<>> THEN st
    ELSE IF \E i \in 1..Len(f.disease_cols) : f.disease_cols[i] \notin Cols(st)
         THEN KeyError(st)
    ELSE LET keyword == Strip(Lower(f.disease_area))
         IN Keep(st, LAMBDA r :
                \E i \in 1..Len(f.disease_cols) :
                    ReSearch(keyword, Strip(Lower(AsStr(r.cells[f.disease_cols[i]]))), FALSE))

\* gender, ethnicity and carer: the whole cell against the criterion
ExactStep5(st, crit, col) ==
    IF ~Live(st) \/ ~Active(crit) \/ ~Truthy(col) THEN st
    ELSE IF col \notin Cols(st) THEN KeyError(st)
    ELSE Keep(st, LAMBDA r : Strip(Lower(AsStr(r.cells[col]))) = Strip(Lower(crit)))

\* dfc[numeric_col].between(min_age, max_age, inclusive='both')
Between(cell, lo, hi) == cell.k = "num" /\ lo <= cell.n /\ cell.n <= hi

AgeStep5(st, f) ==
    IF ~Live(st) \/ f.min_age = AgeNone \/ f.max_age = AgeNone THEN st
    ELSE IF f.min_age = 0 /\ f.max_age = 0 THEN st
    ELSE IF f.max_age < f.min_age THEN [st EXCEPT !.warn = TRUE, !.ret = TRUE]
    ELSE IF ~Truthy(f.age_col) THEN st
    ELSE IF f.age_col \notin Cols(st) THEN KeyError(st)
    ELSE LET numeric_col == f.age_col \o S_num_temp
             withNum == SetCol(st, numeric_col, LAMBDA r : ToNumeric(r.cells[f.age_col]))
             kept == Keep(withNum, LAMBDA r : Between(r.cells[numeric_col], f.min_age, f.max_age))
         IN DropCol(kept, numeric_col)

\* name search and expertise search
SearchStep5(st, search, col) ==
    IF ~Live(st) \/ ~Truthy(search) \/ ~Truthy(col) THEN st
    ELSE IF col \notin Cols(st) THEN KeyError(st)
    ELSE Keep(st, LAMBDA r : Contains(r.cells[col], search))

filter_dataframe5(d, f) ==
    LET s1 == DiseaseStep5(Copy(d), f)
        s2 == ExactStep5(s1, f.gender, f.gender_col)
        s3 == ExactStep5(s2, f.ethnicity, f.ethnicity_col)
        s4 == ExactStep5(s3, f.carer, f.carer_col)
        s5 == AgeStep5(s4, f)
        s6 == SearchStep5(s5, f.name_search, f.name_col)
    IN SearchStep5(s6, f.expertise_search, f.expertise_col)

(* ---- src/App.py ---- *)

\* d[col].astype(str).str.lower() == crit.lower(), with no guard on col
ExactStepA(st, crit, col) ==
    IF ~Live(st) \/ ~Active(crit) THEN st
    ELSE IF col \notin Cols(st) THEN KeyError(st)
    ELSE Keep(st, LAMBDA r : Lower(AsStr(r.cells[col])) = Lower(crit))

AgeStepA(st, f) ==
    IF ~Live(st) \/ f.age_col = PyNone THEN st
    ELSE IF f.age_col \notin Cols(st) THEN KeyError(st)
    ELSE LET num == f.age_col \o S_num
             withNum == SetCol(st, num, LAMBDA r : ToNumeric(r.cells[f.age_col]))
             lo == IF f.min_age = AgeNone THEN withNum
                   ELSE Keep(withNum, LAMBDA r : r.cells[num].k = "num" /\ r.cells[num].n >= f.min_age)
         IN IF f.max_age = AgeNone THEN lo
            ELSE Keep(lo, LAMBDA r : r.cells[num].k = "num" /\ r.cells[num].n <= f.max_age)

NameStepA(st, f) ==
    IF ~Live(st) \/ ~Truthy(f.name_search) THEN st
    ELSE IF f.name_col \notin Cols(st) THEN KeyError(st)
    ELSE Keep(st, LAMBDA r : Contains(r.cells[f.name_col], f.name_search))

ExpertiseStepA(st, f) ==
    IF ~Live(st) \/ ~Truthy(f.expertise_search) \/ f.expertise_col = PyNone THEN st
    ELSE IF f.expertise_col \notin Cols(st) THEN KeyError(st)
    ELSE Keep(st, LAMBDA r : Contains(r.cells[f.expertise_col], f.expertise_search))

\* Drop helper numeric age
DropStepA(st, f) ==
    IF ~Live(st) \/ f.age_col = PyNone \/ (f.age_col \o S_num) \notin Cols(st) THEN st
    ELSE WithoutCol(st, f.age_col \o S_num)

filter_dataframeA(d, f) ==
    LET s1 == ExactStepA(Copy(d), f.disease_area, f.disease_col)
        s2 == ExactStepA(s1, f.gender, f.gender_col)
        s3 == ExactStepA(s2, f.ethnicity, f.ethnicity_col)
        s4 == AgeStepA(s3, f)
        s5 == NameStepA(s4, f)
        s6 == ExpertiseStepA(s5, f)
    IN DropStepA(s6, f)

\* the filter_dataframe of the script the session runs
filter_dataframe(a, d, f) ==
    CASE a = "App" -> filter_dataframeA(d, f)
      [] a = "App4" -> filter_dataframe4(d, f)
      [] a = "App5" -> filter_dataframe5(d, f)

---------------------------------------------------------------------------
(* Column resolution: normalize_cols builds the lookup from lowercased     *)
(* header to header, get_col resolves a field from an ordered list of      *)
(* candidate names, and each script resolves its fields once per run.      *)

\* df.rename(columns=lambda c: str(c).strip()): the headers, stripped
RECURSIVE StripHeaders(_)
StripHeaders(hs) ==
    IF hs = <<>> THEN <<>> ELSE <<Strip(Head(hs))>> \o StripHeaders(Tail(hs))

\* col_map = {c.lower().strip(): c for c in df.columns}: the headers are
\* entered left to right, a later header replacing an earlier one under
\* the same key
RECURSIVE col_map_of(_)
col_map_of(hs) ==
    IF hs = <<>> THEN <<>>
    ELSE LET c == hs[Len(hs)]
         IN (Strip(Lower(c)) :> c) @@ col_map_of(SubSeq(hs, 1, Len(hs) - 1))

\* the cells of a row under the stripped headers, column by column
RECURSIVE RenameCells_Lower(_, _)
RenameCells_Lower(hs, cells) ==
    IF hs = <<>> THEN <<>>
    ELSE (Strip(Head(hs)) :> [cells[Head(hs)] EXCEPT !.s = Lower(@)])
         @@ RenameCells_Lower(Tail(hs), cells)

RECURSIVE RenameCells(_, _)
RenameCells(hs, cells) ==
    IF hs = <<>> THEN <<>>
    ELSE (Strip(Head(hs)) :> cells[Head(hs)]) @@ RenameCells(Tail(hs), cells)

RECURSIVE RenameRows(_, _)
RenameRows(hs, rows) ==
    IF rows = <<>> THEN <<>>
    ELSE <<[Head(rows) EXCEPT !.cells = RenameCells(hs, @)]>> \o RenameRows(hs, Tail(rows))

\* normalize_cols(df): the table under its stripped headers, and the lookup
normalize_cols(d) ==
    [df |-> [cols |-> StripHeaders(d.cols), rows |-> RenameRows(d.cols, d.rows)],
     col_map |-> col_map_of(StripHeaders(d.cols))]

\* get_col of App4 and App5: the candidates are lowercased and stripped
RECURSIVE get_col4(_, _)
get_col4(col_map, names) ==
    IF names = <<>> THEN PyNone
    ELSE LET key == Strip(Lower(Head(names)))
         IN IF key \in DOMAIN col_map THEN col_map[key]
            ELSE get_col4(col_map, Tail(names))

\* get_col of App: the candidates are looked up as they are written
RECURSIVE get_colA(_, _, _)
get_colA(d, col_map, names) ==
    IF names = <<>> THEN PyNone
    ELSE IF Head(names) \in DOMAIN col_map THEN col_map[Head(names)]
         ELSE get_colA(d, col_map, Tail(names))

(* ---- the candidate names of each field, per script ---- *)

\* get_col(df, col_map, [...]) of App, lines 131-137
CandidatesA ==
    [name_col |->
        <<<<"n", "a", "m", "e">>, \* name
          <<"f", "u", "l", "l", "_", "n", "a", "m", "e">>, \* full_name
          <<"p", "a", "r", "t", "i", "c", "i", "p", "a", "n", "t", "_", "n", "a", "m", "e">> >> \* participant_name
     ,
     email_col |->
        <<<<"e", "m", "a", "i", "l">>, \* email
          <<"e", "m", "a", "i", "l", "_", "a", "d", "d", "r", "e", "s", "s">>, \* email_address
          <<"e", "-", "m", "a", "i", "l">>, \* e-mail
          <<"e", "m", "a", "i", "l", " ", "i", "d">> >> \* email id
     ,
     disease_col |->
        <<<<"d", "i", "s", "e", "a", "s", "e", "_", "a", "r", "e", "a">>, \* disease_area
          <<"d", "i", "s", "e", "a", "s", "e">>, \* disease
          <<"c", "o", "n", "d", "i", "t", "i", "o", "n">>, \* condition
          <<"h", "e", "a", "l", "t", "h", "_", "c", "o", "n", "d", "i", "t", "i", "o", "n">>, \* health_condition
          <<"D", "i", "s", "e", "a", "s", "e", " ", "E", "x", "p", "e", "r", "i", "e", "n", "c", "e">> >> \* Disease Experience
     ,
     age_col |->
        <<<<"a", "g", "e">>, \* age
          <<"y", "e", "a", "r", "s">>, \* years
          <<"a", "g", "e", "_", "y", "e", "a", "r", "s">> >> \* age_years
     ,
     gender_col |->
        <<<<"g", "e", "n", "d", "e", "r">>, \* gender
          <<"s", "e", "x">> >> \* sex
     ,
     ethnicity_col |->
        <<<<"e", "t", "h", "n", "i", "c", "i", "t", "y">>, \* ethnicity
          <<"r", "a", "c", "e">>, \* race
          <<"e", "t", "h", "n", "i", "c", "_", "g", "r", "o", "u", "p">> >> \* ethnic_group
     ,
     expertise_col |->
        <<<<"e", "x", "p", "e", "r", "t", "i", "s", "e">>, \* expertise
          <<"k", "e", "y", "w", "o", "r", "d", "s">>, \* keywords
          <<"a", "r", "e", "a", "s", "_", "o", "f", "_", "e", "x", "p", "e", "r", "t", "i", "s", "e">>, \* areas_of_expertise
          <<"n", "o", "t", "e", "s">> >> \* notes
    ]

\* get_col(col_map, [...]) of App4, lines 432-452
Candidates4 ==
    [age_col |->
        <<<<"a", "g", "e">>, \* age
          <<"w", "h", "a", "t", " ", "i", "s", " ", "y", "o", "u", "r", " ", "a", "g", "e">> >> \* what is your age
     ,
     gender_col |->
        <<<<"w", "h", "a", "t", " ", "i", "s", " ", "y", "o", "u", "r", " ", "s", "e", "x", "?", " ", "a", " ", "q", "u", "e", "s", "t", "i", "o", "n", " ", "a", "b", "o", "u", "t", " ", "g", "e", "n", "d", "e", "r", " ", "i", "d", "e", "n", "t", "i", "t", "y", " ", "w", "i", "l", "l", " ", "f", "o", "l", "l", "o", "w", ".">>, \* what is your sex? a question about gender identity will follow.
          <<"w", "h", "a", "t", " ", "i", "s", " ", "y", "o", "u", "r", " ", "s", "e", "x", "?">>, \* what is your sex?
          <<"s", "e", "x">>, \* sex
          <<"g", "e", "n", "d", "e", "r">> >> \* gender
     ,
     ethnicity_col |->
        <<<<"w", "h", "a", "t", " ", "i", "s", " ", "y", "o", "u", "r", " ", "e", "t", "h", "n", "i", "c", " ", "g", "r", "o", "u", "p", "?", " ", "c", "h", "o", "o", "s", "e", " ", "o", "n", "e", " ", "o", "p", "t", "i", "o", "n", " ", "t", "h", "a", "t", " ", "b", "e", "s", "t", " ", "d", "e", "s", "c", "r", "i", "b", "e", "s", " ", "y", "o", "u", "r", " ", "e", "t", "h", "n", "i", "c", " ", "g", "r", "o", "u", "p", " ", "o", "r", " ", "b", "a", "c", "k", "g", "r", "o", "u", "n", "d", ".">>, \* what is your ethnic group? choose one option that best describes your ethnic group or background.
          <<"w", "h", "a", "t", " ", "i", "s", " ", "y", "o", "u", "r", " ", "e", "t", "h", "n", "i", "c", " ", "g", "r", "o", "u", "p", "?">>, \* what is your ethnic group?
          <<"e", "t", "h", "n", "i", "c", " ", "g", "r", "o", "u", "p">>, \* ethnic group
          <<"e", "t", "h", "n", "i", "c", "i", "t", "y">> >> \* ethnicity
     ,
     carer_col |->
        <<<<"d", "o", " ", "y", "o", "u", " ", "h", "a", "v", "e", " ", "a", "n", "y", " ", "c", "a", "r", "i", "n", "g", " ", "r", "e", "s", "p", "o", "n", "s", "i", "b", "i", "l", "i", "t", "i", "e", "s", "?", " ", "(", "i", "f", " ", "y", "o", "u", " ", "s", "h", "a", "r", "e", " ", "c", "a", "r", "e", " ", "r", "e", "s", "p", "o", "n", "s", "i", "b", "i", "l", "i", "t", "i", "e", "s", " ", "e", "q", "u", "a", "l", "l", "y", " ", "t", "h", "e", "n", " ", "p", "l", "e", "a", "s", "e", " ", "a", "n", "s", "w", "e", "r", " ", "a", "s", " ", "t", "h", "e", " ", "p", "r", "i", "m", "a", "r", "y", " ", "c", "a", "r", "e", "r", ")">>, \* do you have any caring responsibilities? (if you share care responsibilities equally then please answer as the primary carer)
          <<"d", "o", " ", "y", "o", "u", " ", "h", "a", "v", "e", " ", "a", "n", "y", " ", "c", "a", "r", "i", "n", "g", " ", "r", "e", "s", "p", "o", "n", "s", "i", "b", "i", "l", "i", "t", "i", "e", "s", "?", " ", "(", "i", "f", " ", "y", "o", "u", " ", "s", "h", "a", "r", "e", " ", "c", "a", "r", "e", " ", "r", "e", "s", "p", "o", "n", "s", "i", "b", "i", "l", "i", "t", "i", "e", "s", " ", "e", "q", "u", "a", "l", "l", "y", " ", "t", "h", "e", "n", " ", "p", "l", "e", "a", "s", "e", " ", "a", "n", "s", "w", "e", "r", " ", "a", "s", " ", "t", "h", "e", " ", "p", "r", "i", "m", "a", "r", "y", " ", "c", "a", "r", "e", "r", ")">>, \* do you have any caring responsibilities? (if you share care responsibilities equally then please answer as the primary carer)
          <<"d", "o", " ", "y", "o", "u", " ", "h", "a", "v", "e", " ", "a", "n", "y", " ", "c", "a", "r", "i", "n", "g", " ", "r", "e", "s", "p", "o", "n", "s", "i", "b", "i", "l", "i", "t", "i", "e", "s", "?">>, \* do you have any caring responsibilities?
          <<"c", "a", "r", "i", "n", "g", " ", "r", "e", "s", "p", "o", "n", "s", "i", "b", "i", "l", "i", "t", "i", "e", "s">> >> \* caring responsibilities
     ,
     sexuality_col |->
        <<<<"w", "h", "i", "c", "h", " ", "o", "f", " ", "t", "h", "e", " ", "f", "o", "l", "l", "o", "w", "i", "n", "g", " ", "b", "e", "s", "t", " ", "d", "e", "s", "c", "r", "i", "b", "e", "s", " ", "y", "o", "u", "r", " ", "s", "e", "x", "u", "a", "l", " ", "o", "r", "i", "e", "n", "t", "a", "t", "i", "o", "n", "?">>, \* which of the following best describes your sexual orientation?
          <<"s", "e", "x", "u", "a", "l", " ", "o", "r", "i", "e", "n", "t", "a", "t", "i", "o", "n">> >> \* sexual orientation
     ,
     name_col |->
        <<<<"n", "a", "m", "e">>, \* name
          <<"f", "u", "l", "l", " ", "n", "a", "m", "e">>, \* full name
          <<"p", "a", "r", "t", "i", "c", "i", "p", "a", "n", "t", " ", "n", "a", "m", "e">> >> \* participant name
     ,
     email_col |->
        <<<<"e", "m", "a", "i", "l">>, \* email
          <<"e", "m", "a", "i", "l", " ", "i", "d">>, \* email id
          <<"e", "m", "a", "i", "l", " ", "a", "d", "d", "r", "e", "s", "s">> >> \* email address
    ]

\* get_col(col_map, [...]) of App5, lines 238-248
Candidates5 ==
    [age_col |->
        <<<<"a", "g", "e">>, \* age
          <<"w", "h", "a", "t", " ", "i", "s", " ", "y", "o", "u", "r", " ", "a", "g", "e">> >> \* what is your age
     ,
     gender_col |->
        <<<<"w", "h", "a", "t", " ", "i", "s", " ", "y", "o", "u", "r", " ", "s", "e", "x", "?">>, \* what is your sex?
          <<"w", "h", "a", "t", " ", "i", "s", " ", "y", "o", "u", "r", " ", "s", "e", "x">>, \* what is your sex
          <<"s", "e", "x">>, \* sex
          <<"g", "e", "n", "d", "e", "r">> >> \* gender
     ,
     ethnicity_col |->
        <<<<"w", "h", "a", "t", " ", "i", "s", " ", "y", "o", "u", "r", " ", "e", "t", "h", "n", "i", "c", " ", "g", "r", "o", "u", "p", "?">>, \* what is your ethnic group?
          <<"e", "t", "h", "n", "i", "c", " ", "g", "r", "o", "u", "p">>, \* ethnic group
          <<"e", "t", "h", "n", "i", "c", "i", "t", "y">> >> \* ethnicity
     ,
     carer_col |->
        <<<<"d", "o", " ", "y", "o", "u", " ", "h", "a", "v", "e", " ", "a", "n", "y", " ", "c", "a", "r", "i", "n", "g", " ", "r", "e", "s", "p", "o", "n", "s", "i", "b", "i", "l", "i", "t", "y", "?">>, \* do you have any caring responsibility?
          <<"d", "o", " ", "y", "o", "u", " ", "h", "a", "v", "e", " ", "a", "n", "y", " ", "c", "a", "r", "i", "n", "g", " ", "r", "e", "s", "p", "o", "n", "s", "i", "b", "i", "l", "i", "t", "i", "e", "s", "?">>, \* do you have any caring responsibilities?
          <<"d", "o", " ", "y", "o", "u", " ", "h", "a", "v", "e", " ", "a", "n", "y", " ", "c", "a", "r", "i", "n", "g", " ", "r", "e", "s", "p", "o", "n", "s", "i", "b", "i", "l", "i", "t", "y">> >> \* do you have any caring responsibility
     ,
     expertise_col |->
        <<<<"e", "x", "p", "e", "r", "t", "i", "s", "e">>, \* expertise
          <<"e", "x", "p", "e", "r", "t", "i", "s", "e", "/", "k", "e", "y", "w", "o", "r", "d", "s">>, \* expertise/keywords
          <<"e", "x", "p", "e", "r", "t", "i", "s", "e", " ", "k", "e", "y", "w", "o", "r", "d", "s">>, \* expertise keywords
          <<"e", "x", "p", "e", "r", "t", "i", "s", "e", " ", "a", "r", "e", "a", "s">> >> \* expertise areas
     ,
     name_col |->
        <<<<"n", "a", "m", "e">>, \* name
          <<"f", "u", "l", "l", " ", "n", "a", "m", "e">>, \* full name
          <<"p", "a", "r", "t", "i", "c", "i", "p", "a", "n", "t", " ", "n", "a", "m", "e">> >> \* participant name
     ,
     email_col |->
        <<<<"e", "m", "a", "i", "l">>, \* email
          <<"e", "m", "a", "i", "l", " ", "i", "d">>, \* email id
          <<"e", "m", "a", "i", "l", " ", "a", "d", "d", "r", "e", "s", "s">> >> \* email address
    ]

Candidates(a) ==
    CASE a = "App" -> CandidatesA
      [] a = "App4" -> Candidates4
      [] a = "App5" -> Candidates5

S_disease_experience == <<"d", "i", "s", "e", "a", "s", "e", " ", "e", "x", "p", "e", "r", "i", "e", "n", "c", "e">>

\* disease_cols = [c for c in df.columns if "disease experience" in c.lower()]
disease_cols_of(hs) == SelectSeq(hs, LAMBDA c : IsSubstring(S_disease_experience, Lower(c)))

\* no column resolved for any field
Unresolved ==
    [disease_cols |-> <<>>, disease_col |-> PyNone, gender_col |-> PyNone,
     ethnicity_col |-> PyNone, carer_col |-> PyNone, sexuality_col |-> PyNone,
     age_col |-> PyNone, name_col |-> PyNone, email_col |-> PyNone,
     expertise_col |-> PyNone]

\* the fields each script resolves on the normalized table d with lookup m
resolve_columnsA(d, m) ==
    [Unresolved EXCEPT
        !.name_col = get_colA(d, m, CandidatesA.name_col),
        !.email_col = get_colA(d, m, CandidatesA.email_col),
        !.disease_col = get_colA(d, m, CandidatesA.disease_col),
        !.age_col = get_colA(d, m, CandidatesA.age_col),
        !.gender_col = get_colA(d, m, CandidatesA.gender_col),
        !.ethnicity_col = get_colA(d, m, CandidatesA.ethnicity_col),
        !.expertise_col = get_colA(d, m, CandidatesA.expertise_col)]

resolve_columns4(d, m) ==
    [Unresolved EXCEPT
        !.disease_cols = disease_cols_of(d.cols),
        !.name_col = get_col4(m, Candidates4.name_col),
        !.email_col = get_col4(m, Candidates4.email_col),
        !.age_col = get_col4(m, Candidates4.age_col),
        !.gender_col = get_col4(m, Candidates4.gender_col),
        !.ethnicity_col = get_col4(m, Candidates4.ethnicity_col),
        !.carer_col = get_col4(m, Candidates4.carer_col),
        !.sexuality_col = get_col4(m, Candidates4.sexuality_col)]

resolve_columns5(d, m) ==
    [Unresolved EXCEPT
        !.disease_cols = disease_cols_of(d.cols),
        !.name_col = get_col4(m, Candidates5.name_col),
        !.email_col = get_col4(m, Candidates5.email_col),
        !.age_col = get_col4(m, Candidates5.age_col),
        !.gender_col = get_col4(m, Candidates5.gender_col),
        !.ethnicity_col = get_col4(m, Candidates5.ethnicity_col),
        !.carer_col = get_col4(m, Candidates5.carer_col),
        !.expertise_col = get_col4(m, Candidates5.expertise_col)]

resolve_columns(a, d, m) ==
    CASE a = "App" -> resolve_columnsA(d, m)
      [] a = "App4" -> resolve_columns4(d, m)
      [] a = "App5" -> resolve_columns5(d, m)

---------------------------------------------------------------------------
(* The tables and widget values the model tries.  Every table has the      *)
(* Name and Email columns the scripts require; a family of tables lets the *)
(* cells of a few further columns range over the values that matter to     *)
(* the filter of those columns.                                            *)

\* rows per table
MaxRows == 2

ColName == <<"N", "a", "m", "e">>
ColEmail == <<"E", "m", "a", "i", "l">>
ColSex == <<"S", "e", "x">>
ColEthnicity == <<"E", "t", "h", "n", "i", "c", "i", "t", "y">>
\* "Do you have any caring responsibilities?"
ColCarer == <<"D", "o", " ", "y", "o", "u", " ", "h", "a", "v", "e", " ", "a", "n", "y", " ", "c", "a", "r", "i", "n", "g", " ", "r", "e", "s", "p", "o", "n", "s", "i", "b", "i", "l", "i", "t", "i", "e", "s", "?">>
\* "Sexual Orientation"
ColSexuality == <<"S", "e", "x", "u", "a", "l", " ", "O", "r", "i", "e", "n", "t", "a", "t", "i", "o", "n">>
ColAge == <<"A", "g", "e">>
ColDisease1 == <<"1", "s", "t", " ", "D", "i", "s", "e", "a", "s", "e", " ", "E", "x", "p", "e", "r", "i", "e", "n", "c", "e">>
ColDisease2 == <<"2", "n", "d", " ", "D", "i", "s", "e", "a", "s", "e", " ", "E", "x", "p", "e", "r", "i", "e", "n", "c", "e">>
ColDisease == <<"D", "i", "s", "e", "a", "s", "e">>
ColExpertise == <<"E", "x", "p", "e", "r", "t", "i", "s", "e">>

S_None == <<"N", "o", "n", "e">>
S_NAN == <<"N", "A", "N">>
S_Male == <<"M", "a", "l", "e">>
S_male_sp == <<" ", "m", "a", "l", "e", " ">>
S_Female == <<"F", "e", "m", "a", "l", "e">>
S_Other == <<"O", "t", "h", "e", "r">>
S_White == <<"W", "h", "i", "t", "e">>
S_white == <<"w", "h", "i", "t", "e">>
S_Gay == <<"G", "a", "y">>
S_Spouse == <<"S", "p", "o", "u", "s", "e">>
S_ParentSpouse == <<"P", "a", "r", "e", "n", "t", ";", " ", "S", "p", "o", "u", "s", "e">>
S_sp == <<" ">>
S_Alice == <<"A", "l", "i", "c", "e">>
S_Bob == <<"B", "o", "b">>
S_Cathy == <<"C", "a", "t", "h", "y">>
S_Nan == <<"N", "a", "n">>
S_na == <<"n", "a">>
S_AL == <<"A", "L">>
S_b_b == <<"b", ".", "b">>
S_abc == <<"a", "b", "c">>
S_20 == <<"2", "0">>
S_Cancer == <<"C", "a", "n", "c", "e", "r">>
S_Diabetes == <<"D", "i", "a", "b", "e", "t", "e", "s">>
S_HepB == <<"H", "e", "p", ".", "B">>
S_HepAB == <<"H", "e", "p", "A", "B">>
S_trials == <<"t", "r", "i", "a", "l", "s">>
S_research == <<"r", "e", "s", "e", "a", "r", "c", "h">>
S_tri == <<"t", "r", "i">>
S_mail == <<"a", "@", "b">>

\* the columns every table has, with the cells a family does not vary
Person(name) == (ColName :> Str(name)) @@ (ColEmail :> Str(S_mail))

\* no column resolved for any optional field
\* the numbers and texts a family types into the number and text inputs,
\* besides their defaults
NoTyped ==
    [min_age |-> {}, max_age |-> {}, name_search |-> {}, expertise_search |-> {}]

CarerFamily ==
    [cols |-> <<ColName, ColEmail, ColCarer>>,
     pool |-> {Person(S_Alice) @@ (ColCarer :> c) :
                 c \in {NaN, Str(S_sp), Str(S_None), Str(S_Spouse), Str(S_ParentSpouse)}},
     typed |-> [NoTyped EXCEPT !.max_age = {0}]]

GenderFamily ==
    [cols |-> <<ColName, ColEmail, ColSex>>,
     pool |-> {Person(S_Alice) @@ (ColSex :> c) :
                 c \in {NaN, Str(S_Male), Str(S_male_sp), Str(S_Female), Str(S_NAN)}},
     typed |-> [NoTyped EXCEPT !.expertise_search = {S_tri}]]

EthnicityFamily ==
    [cols |-> <<ColName, ColEmail, ColEthnicity, ColSexuality>>,
     pool |-> {Person(S_Alice) @@ (ColEthnicity :> e) @@ (ColSexuality :> s) :
                 e \in {NaN, Str(S_White), Str(S_white)}, s \in {NaN, Str(S_Gay)}},
     typed |-> NoTyped]

AgeFamily ==
    [cols |-> <<ColName, ColEmail, ColAge>>,
     pool |-> {Person(S_Alice) @@ (ColAge :> c) :
                 c \in {NaN, Str(S_abc), Str(S_20), Num(0), Num(19), Num(120), Num(121)}},
     typed |-> [NoTyped EXCEPT !.min_age = {0, 20, 50}, !.max_age = {0, 20, 120},
                               !.name_search = {S_AL}]]

NameFamily ==
    [cols |-> <<ColName, ColEmail, ColExpertise>>,
     pool |-> {(ColName :> c[1]) @@ (ColEmail :> Str(S_mail)) @@ (ColExpertise :> c[2]) :
                 c \in {<<NaN, Str(S_trials)>>, <<Str(S_Alice), NaN>>,
                        <<Str(S_Nan), Str(S_trials)>>, <<Str(S_Bob), Str(S_research)>>}},
     typed |-> [NoTyped EXCEPT !.name_search = {S_na, S_nan, S_AL, S_b_b},
                               !.expertise_search = {S_tri, S_na},
                               !.min_age = {50}, !.max_age = {0}]]

\* the header of the first disease column: App resolves "Disease", App4 and
\* App5 take every header that contains "disease experience"
DiseaseHeader(a) == IF a = "App" THEN ColDisease ELSE ColDisease1

DiseaseFamily(a) ==
    [cols |-> <<ColName, ColEmail, DiseaseHeader(a), ColDisease2>>,
     pool |-> {Person(S_Alice) @@ (DiseaseHeader(a) :> a1) @@ (ColDisease2 :> b) :
                 a1 \in {Str(S_Cancer), Str(S_sp), Str(S_HepB)},
                 b \in {NaN, Str(S_Diabetes), Str(S_HepAB)}},
     typed |-> [NoTyped EXCEPT !.min_age = {0}, !.max_age = {0}]]

\* tables with a column resolved for every field
FullRow(a, name, disease, age, gender, ethnicity, expertise, carer) ==
    Person(name) @@ (DiseaseHeader(a) :> Str(disease)) @@ (ColAge :> Num(age))
    @@ (ColSex :> Str(gender)) @@ (ColEthnicity :> Str(ethnicity))
    @@ (ColExpertise :> Str(expertise)) @@ (ColCarer :> carer)
    @@ (ColSexuality :> NaN)

FullFamily(a) ==
    [cols |-> <<ColName, ColEmail, DiseaseHeader(a), ColAge, ColSex, ColEthnicity,
                ColExpertise, ColCarer, ColSexuality>>,
     pool |-> {FullRow(a, S_Alice, S_Diabetes, 34, S_Female, S_White, S_trials, NaN),
               FullRow(a, S_Bob, S_Cancer, 45, S_Male, S_White, S_research, Str(S_ParentSpouse)),
               FullRow(a, S_Cathy, S_Cancer, 52, S_Female, S_White, S_trials, Str(S_Spouse))},
     typed |-> [NoTyped EXCEPT !.name_search = {S_AL},
                               !.min_age = {0, 50}, !.max_age = {0}]]

Families(a) == {CarerFamily, GenderFamily, EthnicityFamily, AgeFamily, NameFamily,
                DiseaseFamily(a), FullFamily(a)}

\* the tables of a family: up to MaxRows rows, indexed 1, 2, ... as
\* df.index = df.index + 1 leaves them
TablesOf(fam) ==
    UNION {{[cols |-> fam.cols,
             rows |-> [i \in 1..n |-> [idx |-> i, cells |-> q[i]]]] :
              q \in [1..n -> fam.pool]} : n \in 0..MaxRows}

AllFamilies == Families("App") \cup Families("App4")

FamilyOf(d) == CHOOSE fam \in AllFamilies : fam.cols = d.cols

---------------------------------------------------------------------------
(* The option lists of the select boxes, as sets: each script builds them  *)
(* from the loaded table before it draws the widgets.                      *)

\* df[col].dropna().astype(str).unique()
\* the printable ASCII characters in the order of their code points, from
\* " " (32) to "~" (126), without the double quote (34), the backslash (92)
\* and the grave accent (96)
AsciiChars ==
    <<" ", "!", "#", "$", "%", "&", "'", "(", ")", "*", "+", ",", "-", ".", "/", "0",
      "1", "2", "3", "4", "5", "6", "7", "8", "9", ":", ";", "<", "=", ">", "?", "@",
      "A", "B", "C", "D", "E", "F", "G", "H", "I", "J", "K", "L", "M", "N", "O", "P",
      "Q", "R", "S", "T", "U", "V", "W", "X", "Y", "Z", "[", "]", "^", "_", "a", "b",
      "c", "d", "e", "f", "g", "h", "i", "j", "k", "l", "m", "n", "o", "p", "q", "r",
      "s", "t", "u", "v", "w", "x", "y", "z", "{", "|", "}", "~">>

\* ord(c)
Ord ==
    [c \in Range(AsciiChars) |->
        LET i == CHOOSE k \in 1..Len(AsciiChars) : AsciiChars[k] = c
        IN IF i <= 2 THEN 31 + i
           ELSE IF i <= 59 THEN 32 + i
           ELSE IF i <= 62 THEN 33 + i
           ELSE 34 + i]

\* a < b on str: the order of the code points at the first position where
\* the two differ, a proper prefix before the longer string
StrLess(a, b) ==
    \E i \in 1..(Len(b)) :
       /\ \A j \in 1..(i - 1) : j <= Len(a) /\ a[j] = b[j]
       /\ i > Len(a) \/ (i - 1 < Len(a) /\ Ord[a[i]] < Ord[b[i]])

\* sorted(S) of a set of strings
RECURSIVE Sorted(_)
Sorted(S) ==
    IF S = {} THEN <<>>
    ELSE LET least == CHOOSE x \in S : \A y \in S \ {x} : StrLess(x, y)
         IN <<least>> \o Sorted(S \ {least})

ColValues(d, col) ==
    {AsStr(d.rows[i].cells[col]) : i \in {j \in 1..Len(d.rows) : d.rows[j].cells[col].k # "nan"}}

disease_options4(d, f) ==
    <<S_Any>> \o Sorted({v \in UNION {ColValues(d, f.disease_cols[i]) : i \in 1..Len(f.disease_cols)} :
                           Strip(v) # <<>>})

\* gender, ethnicity and sexuality in App4
column_options4(d, col) ==
    IF Truthy(col) /\ col \in Cols(d) THEN <<S_Any>> \o Sorted(ColValues(d, col)) ELSE <<S_Any>>

carer_options4(d, f) ==
    IF Truthy(f.carer_col) /\ f.carer_col \in Cols(d)
    THEN LET parts == {Strip(p) : p \in UNION {Range(SplitSemi(v)) : v \in ColValues(d, f.carer_col)}}
             hasNone == \/ \E v \in ColValues(d, f.carer_col) : Lower(Strip(v)) = S_none
                        \/ \E i \in 1..Len(d.rows) : d.rows[i].cells[f.carer_col].k = "nan"
         IN <<S_Any>> \o Sorted((parts \ {<<>>}) \cup (IF hasNone THEN {S_None} ELSE {}))
    ELSE <<S_Any>>

\* gender, carer and ethnicity in App5
column_options5(d, col) ==
    IF Truthy(col) THEN <<S_Any>> \o Sorted(ColValues(d, col)) ELSE <<S_Any>>

disease_optionsA(d, f) == <<S_Any>> \o Sorted(ColValues(d, f.disease_col))

gender_optionsA(d, f) ==
    LET gender_options == IF Truthy(f.gender_col) THEN Sorted(ColValues(d, f.gender_col)) ELSE <<>>
    IN IF gender_options # <<>> THEN <<S_Any>> \o gender_options
       ELSE <<S_Any, S_Female, S_Male, S_Other>>

ethnicity_optionsA(d, f) ==
    <<S_Any>> \o (IF Truthy(f.ethnicity_col) THEN Sorted(ColValues(d, f.ethnicity_col)) ELSE <<>>)

\* the option list of select box k of script a
OptionList(a, d, f, k) ==
    CASE a = "App4" ->
            (CASE k = "disease_area" -> disease_options4(d, f)
               [] k = "gender" -> column_options4(d, f.gender_col)
               [] k = "ethnicity" -> column_options4(d, f.ethnicity_col)
               [] k = "carer" -> carer_options4(d, f)
               [] k = "sexuality" -> column_options4(d, f.sexuality_col))
      [] a = "App5" ->
            (CASE k = "disease_area" -> disease_options4(d, f)
               [] k = "gender" -> column_options5(d, f.gender_col)
               [] k = "ethnicity" -> column_options5(d, f.ethnicity_col)
               [] k = "carer" -> column_options5(d, f.carer_col))
      [] a = "App" ->
            (CASE k = "disease_area" -> disease_optionsA(d, f)
               [] k = "gender" -> gender_optionsA(d, f)
               [] k = "ethnicity" -> ethnicity_optionsA(d, f))

\* the options of select box k of script a
Options(a, d, f, k) == Range(OptionList(a, d, f, k))

---------------------------------------------------------------------------
(* The session: the script runs once when the table is loaded and again    *)
(* after every change of a widget; each run builds the filters dict from   *)
(* the widgets and the resolved columns and calls filter_dataframe.        *)

Apps == {"App", "App4", "App5"}

\* a name the run has not bound yet
NotYet == "not yet"

\* if not name_col or not email_col
MissingRequired_ExactlyOne(cols) == (~Truthy(cols.name_col)) # (~Truthy(cols.email_col))
MissingRequired(cols) == ~Truthy(cols.name_col) \/ ~Truthy(cols.email_col)

SelectKeys == {"disease_area", "gender", "ethnicity", "carer", "sexuality"}

\* the widgets of each script, by the key of the filters dict they feed
Widgets(a) ==
    CASE a = "App" -> {"disease_area", "gender", "ethnicity", "min_age", "max_age",
                       "name_search", "expertise_search"}
      [] a = "App4" -> {"disease_area", "gender", "ethnicity", "carer", "sexuality",
                        "min_age", "max_age", "name_search"}
      [] a = "App5" -> {"disease_area", "gender", "ethnicity", "carer",
                        "min_age", "max_age", "name_search", "expertise_search"}

\* the value of each widget before the user touches it: DEFAULT_FILTERS in
\* App4 and App5, the first option and value=25 / value=60 in App
Defaults(a) ==
    [disease_area |-> S_Any, gender |-> S_Any, ethnicity |-> S_Any,
     carer |-> S_Any, sexuality |-> S_Any,
     min_age |-> IF a = "App" THEN 25 ELSE 0,
     max_age |-> IF a = "App" THEN 60 ELSE 120,
     name_search |-> <<>>, expertise_search |-> <<>>]

\* the values the user can give widget k: an option of a select box, a
\* number or a text
WidgetValues(a, d, f, k) ==
    IF k \in SelectKeys THEN Options(a, d, f, k)
    ELSE FamilyOf(d).typed[k] \cup {Defaults(a)[k]}

\* the filters dict: the criteria and the resolved columns
BuildFilters(crit, cols) == crit @@ [k \in DOMAIN cols \ {"email_col"} |-> cols[k]]

\* the option lists the script builds for its select boxes
OptionLists(a, d, cols) ==
    LET f == BuildFilters(Defaults(a), cols)
        common == [disease_area |-> OptionList(a, d, f, "disease_area"),
                   gender |-> OptionList(a, d, f, "gender"),
                   ethnicity |-> OptionList(a, d, f, "ethnicity")]
    IN CASE a = "App" -> common
         [] a = "App4" -> common @@ [carer |-> OptionList(a, d, f, "carer"),
                                     sexuality |-> OptionList(a, d, f, "sexuality")]
         [] a = "App5" -> common @@ [carer |-> OptionList(a, d, f, "carer")]

Init ==
    /\ app \in Apps
    /\ \E fam \in Families(app) :
          \* the lookup and the resolved columns depend on the headers only
          \E col_map \in {col_map_of(StripHeaders(fam.cols))} :
          \E cols \in {resolve_columns(app, [cols |-> StripHeaders(fam.cols)], col_map)} :
             \* the run stops without a name and an email column
             /\ ~MissingRequired(cols)
             \* App builds the disease options from df[disease_col] before it
             \* filters, so its run gets to the filter only with that column
             /\ app = "App" => cols.disease_col # PyNone
             /\ \E raw \in TablesOf(fam) :
                   /\ df = normalize_cols(raw).df
                   /\ load = [col_map |-> col_map, cols |-> cols, error |-> NotYet,
                              options |-> OptionLists(app, df, cols)]
             /\ filters = BuildFilters(Defaults(app), cols)
    /\ pc = "filtered"
    /\ results = filter_dataframe(app, df, filters)

\* the user sets widget k to v; the script reruns
Rerun(a) ==
    /\ app = a
    /\ \E k \in Widgets(a) :
          \E v \in WidgetValues(a, df, filters, k) \ {filters[k]} :
             LET f == [filters EXCEPT ![k] = v]
             IN /\ filters' = f
                /\ results' = filter_dataframe(a, df, f)
    /\ UNCHANGED <<app, df, pc, load>>

RerunApp == Rerun("App")
RerunApp4 == Rerun("App4")
RerunApp5 == Rerun("App5")

\* "Clear All Filters" of App4 and App5: the on_click callback sets every
\* filter key of st.session_state to its DEFAULT_FILTERS value, then the
\* script reruns
reset_filters ==
    /\ app \in {"App4", "App5"}
    /\ filters' = BuildFilters(Defaults(app), load.cols)
    /\ results' = filter_dataframe(app, df, BuildFilters(Defaults(app), load.cols))
    /\ UNCHANGED <<app, df, pc, load>>

Next == RerunApp \/ RerunApp4 \/ RerunApp5 \/ reset_filters

Spec == Init /\ [][Next]_vars

---------------------------------------------------------------------------
(* The first run of the script on a loaded table, statement by statement:  *)
(* normalize_cols, the get_col calls, the check for a name and an email    *)
(* column, the option lists, the first call of filter_dataframe.           *)

MaxHeaders == 3


\* the headers of the loaded tables; read_excel and read_csv make the labels
\* of one table distinct
LoadHeaders ==
    {ColName,
     <<"N", "A", "M", "E">>,  \* "NAME"
     <<"F", "u", "l", "l", " ", "N", "a", "m", "e">>,  \* "Full Name"
     <<" ", "E", "m", "a", "i", "l", " ">>,  \* " Email "
     <<"E", "-", "m", "a", "i", "l">>,  \* "E-mail"
     <<"D", "i", "s", "e", "a", "s", "e", " ", "E", "x", "p", "e", "r", "i", "e", "n", "c", "e">>,  \* "Disease Experience"
     <<"C", "o", "n", "d", "i", "t", "i", "o", "n">>,  \* "Condition"
     ColSex}

\* the loaded tables: up to MaxHeaders distinct headers in any order, no row
\* or one row
LoadTables ==
    UNION {{[cols |-> hs,
             rows |-> [i \in 1..n |->
                         [idx |-> i, cells |-> [h \in Range(hs) |-> Str(S_Cancer)]]]] :
              hs \in {q \in [1..m -> LoadHeaders] : \A i, j \in 1..m : q[i] = q[j] => i = j},
              n \in 0..1} : m \in 0..MaxHeaders}

\* ", ".join(df.columns)
RECURSIVE Join(_, _)
Join(sep, xs) ==
    IF xs = <<>> THEN <<>>
    ELSE IF Len(xs) = 1 THEN xs[1]
    ELSE xs[1] \o sep \o Join(sep, Tail(xs))

InitLoad ==
    /\ app \in Apps
    /\ df \in LoadTables
    /\ filters = NotYet
    /\ results = NotYet
    /\ pc = "loaded"
    /\ load = [col_map |-> NotYet, cols |-> NotYet, error |-> NotYet, options |-> NotYet]

\* df, col_map = normalize_cols(df)
Normalize ==
    /\ pc = "loaded"
    /\ df' = normalize_cols(df).df
    /\ load' = [load EXCEPT !.col_map = normalize_cols(df).col_map]
    /\ pc' = "normalized"
    /\ UNCHANGED <<app, filters, results>>

\* the get_col calls and the disease_cols comprehension
ResolveColumns ==
    /\ pc = "normalized"
    /\ load' = [load EXCEPT !.cols = resolve_columns(app, df, load.col_map)]
    /\ pc' = "resolved"
    /\ UNCHANGED <<app, df, filters, results>>

\* if not name_col or not email_col: st.error(... + ", ".join(df.columns));
\* st.stop()
RequireNameEmail ==
    /\ pc = "resolved"
    /\ IF MissingRequired(load.cols)
       THEN /\ load' = [load EXCEPT !.error = Join(<<",", " ">>, df.cols)]
            /\ pc' = "stopped"
       ELSE /\ pc' = "checked"
            /\ UNCHANGED load
    /\ UNCHANGED <<app, df, filters, results>>

\* the option lists; App indexes df[disease_col] whether or not the column
\* was resolved, and df[None] raises KeyError
BuildOptions ==
    /\ pc = "checked"
    /\ IF app = "App" /\ load.cols.disease_col = PyNone
       THEN /\ pc' = "raised"
            /\ UNCHANGED load
       ELSE /\ load' = [load EXCEPT !.options = OptionLists(app, df, load.cols)]
            /\ pc' = "options"
    /\ UNCHANGED <<app, df, filters, results>>

\* the widgets at their defaults, the filters dict, filter_dataframe
FirstFilter ==
    /\ pc = "options"
    /\ filters' = BuildFilters(Defaults(app), load.cols)
    /\ results' = filter_dataframe(app, df, BuildFilters(Defaults(app), load.cols))
    /\ pc' = "filtered"
    /\ UNCHANGED <<app, df, load>>

NextLoad == Normalize \/ ResolveColumns \/ RequireNameEmail \/ BuildOptions \/ FirstFilter

SpecLoad == InitLoad /\ [][NextLoad]_vars

---------------------------------------------------------------------------
(* The merge of App4 and App5: the PECD table is left-joined to the EDI    *)
(* table on their identifier columns.  The tables of this part keep the    *)
(* cells of a row as a sequence in column order, so that a table can have  *)
(* two columns of one label.  Their identifier cells are texts or missing, *)
(* and they have no date column.                                           *)

MaxMergeRows == 2

\* id_names = ["id", "participant id", "unique id", "identifier"]
id_names ==
    <<<<"i", "d">>,
      <<"p", "a", "r", "t", "i", "c", "i", "p", "a", "n", "t", " ", "i", "d">>,
      <<"u", "n", "i", "q", "u", "e", " ", "i", "d">>,
      <<"i", "d", "e", "n", "t", "i", "f", "i", "e", "r">>>>

\* "_EDI"
S_EDI == <<"_", "E", "D", "I">>

\* the id column of a table: the header of the first of id_names that is a
\* key of the lookup, else the first column, else None
RECURSIVE find_id_col(_, _, _)
find_id_col(cols, map, names) ==
    IF names = <<>> THEN (IF Len(cols) > 0 THEN cols[1] ELSE PyNone)
    ELSE IF Head(names) \in DOMAIN map THEN map[Head(names)]
         ELSE find_id_col(cols, map, Tail(names))

\* the position of the first column of label c
ColIndex(cols, c) == CHOOSE i \in 1..Len(cols) : cols[i] = c /\ \A j \in 1..(i - 1) : cols[j] # c

\* the positions of the right-hand columns the merge keeps: all of them, but
\* for the key column when both keys have one label
RightKept(R, lk, rk) == SelectSeq([i \in 1..Len(R.cols) |-> i], LAMBDA i : ~(lk = rk /\ R.cols[i] = rk))

\* the labels of the kept right-hand columns in the merged table: one that
\* is also a left-hand label gets the suffix "_EDI"
right_labels(L, R, lk, rk) ==
    LET kept == RightKept(R, lk, rk)
    IN [i \in 1..Len(kept) |->
          IF R.cols[kept[i]] \in Range(L.cols)
          THEN R.cols[kept[i]] \o S_EDI
          ELSE R.cols[kept[i]]]

\* the labels of the merged table: the left-hand labels as they are (their
\* suffix is ""), then the right-hand labels
merge_columns(L, R, lk, rk) == L.cols \o right_labels(L, R, lk, rk)

\* the rows of the merged table for one left-hand row: one for every right-hand
\* row with its key, in their order, or one with missing right-hand cells
JoinedRows(l, L, R, lk, rk) ==
    LET kept == RightKept(R, lk, rk)
        matches == SelectSeq(R.rows, LAMBDA r : r[ColIndex(R.cols, rk)] = l[ColIndex(L.cols, lk)])
    IN IF matches = <<>> THEN <<l \o [i \in 1..Len(kept) |-> NaN]>>
       ELSE [m \in 1..Len(matches) |-> l \o [i \in 1..Len(kept) |-> matches[m][kept[i]]]]

RECURSIVE merge_rows(_, _, _, _, _)
merge_rows(rows, L, R, lk, rk) ==
    IF rows = <<>> THEN <<>>
    ELSE JoinedRows(Head(rows), L, R, lk, rk) \o merge_rows(Tail(rows), L, R, lk, rk)

Distinct(s) == \A i, j \in 1..Len(s) : s[i] = s[j] => i = j

\* L.merge(R, left_on=lk, right_on=rk, how="left", suffixes=("", "_EDI")):
\* pandas raises MergeError when the suffix gives two right-hand columns one
\* label; it does not compare the right-hand labels with the left-hand ones
merge(L, R, lk, rk) ==
    IF ~Distinct(right_labels(L, R, lk, rk)) THEN [exc |-> "MergeError"]
    ELSE [exc |-> "", cols |-> merge_columns(L, R, lk, rk),
          rows |-> merge_rows(L.rows, L, R, lk, rk)]

\* pecd_cols + edi_only_cols
ReorderedColumns(pecd_cols, merged_cols) ==
    pecd_cols \o SelectSeq(merged_cols, LAMBDA c : c \notin Range(pecd_cols))

\* t[labels]: for each label in turn, every column of t of that label
RECURSIVE SelectPositions(_, _)
SelectPositions(cols, labels) ==
    IF labels = <<>> THEN <<>>
    ELSE SelectSeq([i \in 1..Len(cols) |-> i], LAMBDA i : cols[i] = Head(labels))
         \o SelectPositions(cols, Tail(labels))

\* df = df_merged[pecd_cols + edi_only_cols].copy(); df.index = df.index + 1
Reordered(m, pecd_cols) ==
    LET pos == SelectPositions(m.cols, ReorderedColumns(pecd_cols, m.cols))
    IN [cols |-> [i \in 1..Len(pos) |-> m.cols[pos[i]]],
        rows |-> [n \in 1..Len(m.rows) |->
                    [idx |-> n, cells |-> [i \in 1..Len(pos) |-> m.rows[n][pos[i]]]]]]

(* ---- the tables the two workbooks hold ---- *)

\* the header rows of the PECD workbook and of the EDI workbook
MergeHeaders ==
    LET H_ID == <<"I", "D">>
        H_ParticipantID == <<"P", "a", "r", "t", "i", "c", "i", "p", "a", "n", "t", " ", "I", "D">>
        H_Notes == <<"N", "o", "t", "e", "s">>
        H_Notes_EDI == H_Notes \o S_EDI
    IN [pecd |-> {<<H_ID, ColName>>, <<ColName, H_ID, H_Notes>>, <<ColName, H_Notes>>,
                  <<H_ID, H_Notes, H_Notes_EDI>>, <<>>},
        edi |-> {<<H_ID, ColSex>>, <<H_ParticipantID, H_Notes>>, <<ColSex, H_ID, ColName>>,
                 <<H_ID, H_Notes, H_Notes_EDI>>, <<>>}]

\* the identifier cells
MergeKeys == {Str(<<"P", "1">>), Str(<<"P", "2">>), NaN}

\* the tables with headers hs: up to MaxMergeRows rows; the cell of row n in
\* the first column and in an id column is an identifier, every other cell
\* the text tag followed by n
MergeTables(hs, tag) ==
    UNION {{[cols |-> hs,
             rows |-> [n \in 1..k |->
                         [i \in 1..Len(hs) |->
                            IF i = 1 \/ Strip(Lower(hs[i])) \in Range(id_names) THEN keys[n]
                            ELSE Str(<<tag>> \o IntToStr(n))]]] :
              keys \in [1..k -> MergeKeys]} : k \in 0..(IF hs = <<>> THEN 0 ELSE MaxMergeRows)}

InitMerge ==
    /\ app \in {"App4", "App5"}
    /\ \E ph \in MergeHeaders.pecd, eh \in MergeHeaders.edi :
          \E pecd \in MergeTables(ph, "p"), edi \in MergeTables(eh, "e") :
             load = [df_pecd |-> pecd, df_edi |-> edi,
                     pecd_id_col |-> NotYet, edi_id_col |-> NotYet, df_merged |-> NotYet]
    /\ df = NotYet
    /\ filters = NotYet
    /\ results = NotYet
    /\ pc = "read"

\* normalize_cols on both tables, the search for the id columns and the
\* stop when a table has none
FindIdColumns ==
    /\ pc = "read"
    /\ LET pecd_cols == StripHeaders(load.df_pecd.cols)
           edi_cols == StripHeaders(load.df_edi.cols)
           pecd_id == find_id_col(pecd_cols, col_map_of(pecd_cols), id_names)
           edi_id == find_id_col(edi_cols, col_map_of(edi_cols), id_names)
       IN /\ load' = [load EXCEPT !.df_pecd.cols = pecd_cols, !.df_edi.cols = edi_cols,
                                  !.pecd_id_col = pecd_id, !.edi_id_col = edi_id]
          /\ pc' = IF pecd_id = PyNone \/ edi_id = PyNone THEN "stopped" ELSE "ids"
    /\ UNCHANGED <<app, df, filters, results>>

\* the merge inside try / except: an exception is shown and stops the run
Merge ==
    /\ pc = "ids"
    /\ LET m == merge(load.df_pecd, load.df_edi, load.pecd_id_col, load.edi_id_col)
       IN IF m.exc # ""
          THEN pc' = "stopped" /\ UNCHANGED load
          ELSE pc' = "merged" /\ load' = [load EXCEPT !.df_merged = [cols |-> m.cols, rows |-> m.rows]]
    /\ UNCHANGED <<app, df, filters, results>>

\* the columns of PECD first, then the others; the index from 1
Reorder ==
    /\ pc = "merged"
    /\ df' = Reordered(load.df_merged, load.df_pecd.cols)
    /\ pc' = "ordered"
    /\ UNCHANGED <<app, filters, results, load>>

NextMerge == FindIdColumns \/ Merge \/ Reorder

SpecMerge == InitMerge /\ [][NextMerge]_vars

---------------------------------------------------------------------------
(* The sign-in of App4 and App5: every run of the script redeems the       *)
(* authorization code of the query string unless the session holds a       *)
(* token_result, checks the token and the e-mail of its claims, and only   *)
(* then goes on to load the tables.  load holds the secrets, the query     *)
(* string, st.session_state, the run's token_result and the number of      *)
(* calls of acquire_token_by_authorization_code.                           *)

MaxRedeem == 3

\* st.secrets["ALLOWED_EMAILS"]: a list of addresses
AllowedLists ==
    {<<>>, <<<<"a", "@", "x">>>>, <<<<"a", "@", "x">>, <<"b", "@", "x">>>>}

\* the dicts acquire_token_by_authorization_code returns: a token with the
\* claims of the id token, or an error
TokenResults ==
    {[access_token |-> "at", id_token_claims |-> c] :
        c \in {[preferred_username |-> e, name |-> <<"A">>] :
                 e \in {<<"a", "@", "x">>, <<"b", "@", "x">>, <<"e", "@", "x">>}}
              \cup {[preferred_username |-> <<"a", "@", "x">>], [name |-> <<"A">>]}}
    \cup {[access_token |-> "at"]}
    \cup {[access_token |-> "at", error |-> "bad_token",
           id_token_claims |-> [preferred_username |-> <<"a", "@", "x">>]]}
    \cup {[error |-> e] : e \in {"invalid_grant", "bad_token", "invalid_client"}}

\* st.session_state.pop(key, None)
Pop(ss, key) == [k \in DOMAIN ss \ {key} |-> ss[k]]

\* d.get(key, default)
Get(d, key, default) == IF key \in DOMAIN d THEN d[key] ELSE default

\* the condition under which the run shows the login page (App4) or the
\* message "Authentication failed." (App5) and stops
TokenRejected(a, token_result) ==
    IF a = "App4"
    THEN \/ "access_token" \notin DOMAIN token_result
         \/ Get(token_result, "error", "") \in {"invalid_grant", "bad_token"}
    ELSE "access_token" \notin DOMAIN token_result

\* email in ALLOWED_EMAILS
EmailAllowed_NonEmpty(email, allowed) == email # <<>> /\ email # PyNone
EmailAllowed(email, allowed) == email \in Range(allowed)

InitAuth ==
    /\ app \in {"App4", "App5"}
    /\ df = NotYet
    /\ filters = NotYet
    /\ results = NotYet
    /\ pc = "run"
    /\ \E allowed \in AllowedLists, q \in {<<>>, [code |-> <<"c", "1">>]} :
          load = [ALLOWED_EMAILS |-> allowed, query_params |-> q, session_state |-> <<>>,
                  token_result |-> NotYet, redeemed |-> 0]

\* if "token_result" not in st.session_state: the login page without a
\* code, the redemption of the code with one
Authenticate ==
    /\ pc = "run"
    /\ IF "token_result" \notin DOMAIN load.session_state
       THEN IF "code" \notin DOMAIN load.query_params
            THEN /\ pc' = "login"
                 /\ UNCHANGED load
            ELSE /\ load.redeemed < MaxRedeem
                 /\ \E token_result \in TokenResults :
                       load' = [load EXCEPT
                                  !.session_state = ("token_result" :> token_result) @@ @,
                                  !.redeemed = @ + 1]
                 /\ pc' = "authenticated"
       ELSE /\ pc' = "authenticated"
            /\ UNCHANGED load
    /\ UNCHANGED <<app, df, filters, results>>

\* the check of the token: App4 forgets a rejected token_result and shows
\* the login page, App5 shows the failure and keeps it
CheckToken ==
    /\ pc = "authenticated"
    /\ LET token_result == load.session_state["token_result"]
       IN IF TokenRejected(app, token_result)
          THEN /\ load' = [load EXCEPT
                             !.token_result = token_result,
                             !.session_state = IF app = "App4" THEN Pop(@, "token_result") ELSE @]
               /\ pc' = IF app = "App4" THEN "login" ELSE "failed"
          ELSE /\ load' = [load EXCEPT !.token_result = token_result]
               /\ pc' = "token"
    /\ UNCHANGED <<app, df, filters, results>>

\* the e-mail of the claims against ALLOWED_EMAILS; App5 indexes
\* token_result["id_token_claims"], which raises KeyError without claims
ValidateUser ==
    /\ pc = "token"
    /\ IF app = "App5" /\ "id_token_claims" \notin DOMAIN load.token_result
       THEN /\ pc' = "raised"
            /\ UNCHANGED load
       ELSE LET claims == Get(load.token_result, "id_token_claims", <<>>)
                email == Get(claims, "preferred_username", IF app = "App4" THEN <<>> ELSE PyNone)
                name == IF Truthy(Get(claims, "name", PyNone)) THEN claims["name"]
                        ELSE IF Truthy(email) THEN email ELSE <<"U", "s", "e", "r">>
            IN /\ load' = [load EXCEPT
                             !.session_state =
                                IF app = "App4"
                                THEN ("user_email" :> email) @@ ("user_name" :> name) @@ @
                                ELSE ("user_email" :> email) @@ @]
               /\ pc' = IF EmailAllowed(email, load.ALLOWED_EMAILS) THEN "validated" ELSE "denied"
    /\ UNCHANGED <<app, df, filters, results>>

\* the rest of the script: the tables are loaded, merged, filtered and shown
LoadData ==
    /\ pc = "validated"
    /\ df' \in {normalize_cols(t).df : t \in {u \in TablesOf(CarerFamily) : Len(u.rows) = 1}}
    /\ pc' = "portal"
    /\ UNCHANGED <<app, filters, results, load>>

\* the script runs again in the same session, with the same query string
RerunScript ==
    /\ pc \in {"login", "failed", "denied", "raised", "portal"}
    /\ pc' = "run"
    /\ df' = NotYet
    /\ load' = [load EXCEPT !.token_result = NotYet]
    /\ UNCHANGED <<app, filters, results>>

NextAuth == Authenticate \/ CheckToken \/ ValidateUser \/ LoadData \/ RerunScript

SpecAuth == InitAuth /\ [][NextAuth]_vars

---------------------------------------------------------------------------
(* Vocabulary of the properties                                            *)

StringKeys == SelectKeys \cup {"name_search", "expertise_search"}

\* the row of the loaded table is in the last run's result
Kept(r) == \E j \in 1..Len(results.rows) : results.rows[j].idx = r.idx

\* the index labels of a result, as a set
IdxSet(st) == {st.rows[j].idx : j \in 1..Len(st.rows)}

\* the age inputs filter nothing: [0,0], or a proper range on no column
AgeOff(f) ==
    \/ f.min_age = 0 /\ f.max_age = 0
    \/ f.age_col = PyNone /\ f.min_age <= f.max_age

\* no select box or text box outside keys is set, and the age inputs are off
OnlyActive(f, keys) ==
    /\ \A k \in StringKeys \ keys : ~Active(f[k])
    /\ AgeOff(f)

\* no column is resolved for the field widget k filters on
ColUnmapped(a, f, k) ==
    CASE k = "disease_area" -> IF a = "App" THEN f.disease_col = PyNone
                               ELSE f.disease_cols = <<>>
      [] k = "gender" -> f.gender_col = PyNone
      [] k = "ethnicity" -> f.ethnicity_col = PyNone
      [] k = "carer" -> f.carer_col = PyNone
      [] k = "sexuality" -> f.sexuality_col = PyNone
      [] k = "name_search" -> f.name_col = PyNone
      [] k = "expertise_search" -> f.expertise_col = PyNone

---------------------------------------------------------------------------
(* C1 *)

\* the carer cell is missing, empty after trimming, or "none" in any case
CarerCellIsNone(cell) ==
    \/ cell.k = "nan"
    \/ cell.k = "str" /\ (Strip(cell.s) = <<>> \/ Lower(Strip(cell.s)) = S_none)

\* C1: in App4, with the carer criterion "None" (any letter case) on a
\* resolved carer column and nothing else filtering, a row is kept if and
\* only if its carer cell is missing, blank or "none".
C1_NoneKeepsEmptyCarer ==
    (/\ app = "App4"
     /\ Lower(filters.carer) = S_none
     /\ filters.carer_col \in Cols(df)
     /\ OnlyActive(filters, {"carer"}))
    => \A i \in 1..Len(df.rows) :
          Kept(df.rows[i]) <=> CarerCellIsNone(df.rows[i].cells[filters.carer_col])

---------------------------------------------------------------------------
(* C2 *)

\* C2: in every script, an active criterion on a field with no resolved
\* column raises nothing and gives the rows that the run would give with
\* that criterion at its inactive value.
C2_UnmappedFieldInert ==
    /\ \A k \in Widgets(app) \cap StringKeys :
          (Active(filters[k]) /\ ColUnmapped(app, filters, k))
          => /\ results.exc = ""
             /\ results.rows =
                  filter_dataframe(app, df, [filters EXCEPT ![k] = Defaults(app)[k]]).rows
    /\ (filters.age_col = PyNone /\ ~(filters.min_age = 0 /\ filters.max_age = 0))
          => /\ results.exc = ""
             /\ results.rows =
                  filter_dataframe(app, df, [filters EXCEPT !.min_age = 0, !.max_age = 0]).rows

---------------------------------------------------------------------------
(* C3 *)

\* the criteria of the steps after the age step, and the age inputs, off
BeforeAgeOnly(f) ==
    [f EXCEPT !.min_age = 0, !.max_age = 0, !.name_search = <<>>,
              !.expertise_search = <<>>]

\* C3: in App4 and App5, with min_age > max_age the call raises nothing,
\* shows the warning and returns exactly the rows passing the criteria of
\* the steps before the age step, the name and expertise searches not
\* applied; with no such criterion set that is the whole table.
C3_InvalidRangeRecovery ==
    (app \in {"App4", "App5"} /\ filters.min_age > filters.max_age)
    => /\ results.exc = ""
       /\ results.warn
       /\ results.rows = filter_dataframe(app, df, BeforeAgeOnly(filters)).rows
       /\ results.cols = df.cols
       /\ (\A k \in StringKeys \ {"name_search", "expertise_search"} : ~Active(filters[k]))
             => results.rows = df.rows

\* an inverted range after a disease criterion that dropped a row, with a
\* name search that the returned rows do not all pass
C3_Witness ==
    /\ app = "App4"
    /\ filters.min_age > filters.max_age
    /\ results.warn
    /\ Active(filters.disease_area)
    /\ Truthy(filters.name_search)
    /\ Len(results.rows) > 0
    /\ Len(results.rows) < Len(df.rows)
    /\ \E j \in 1..Len(results.rows) :
          ~Contains(results.rows[j].cells[filters.name_col], filters.name_search)

---------------------------------------------------------------------------
(* C4 *)

ActiveKeys(f) == {k \in StringKeys : Active(f[k])}

\* f with the criteria of off set to their inactive value and, if ageOff,
\* the age inputs set to [0,0]
Weaken(f, off, ageOff) ==
    [k \in DOMAIN f |->
        IF k \in off THEN Defaults("App4")[k]
        ELSE IF ageOff /\ k \in {"min_age", "max_age"} THEN 0
        ELSE f[k]]

\* the criteria sets A whose active criteria are all criteria of f
SubCriteria(f) == {Weaken(f, off, ageOff) : off \in SUBSET ActiveKeys(f), ageOff \in BOOLEAN}

SameAgeRange(f, g) == f.min_age = g.min_age /\ f.max_age = g.max_age

\* C4 as claimed: in App4 and App5, for criteria sets A within B, whatever
\* the age range of B, every row returned for B is returned for A.
C4_MonotoneAnyRange ==
    app \in {"App4", "App5"}
    => \A A \in SubCriteria(filters) :
          IdxSet(results) \subseteq IdxSet(filter_dataframe(app, df, A))

\* C4 as amended: the same, for the B whose age range is not inverted
\* (min_age <= max_age) and for the A that have B's own age range.
C4_MonotoneValidRange ==
    app \in {"App4", "App5"}
    => \A A \in SubCriteria(filters) :
          (filters.min_age <= filters.max_age \/ SameAgeRange(A, filters))
          => IdxSet(results) \subseteq IdxSet(filter_dataframe(app, df, A))

\* two criteria are active, and dropping some of them returns more rows
C4_Witness ==
    /\ app \in {"App4", "App5"}
    /\ Cardinality(ActiveKeys(filters)) >= 2
    /\ filters.min_age <= filters.max_age
    /\ results.rows # <<>>
    /\ \E A \in SubCriteria(filters) :
          /\ ActiveKeys(A) # {}
          /\ SameAgeRange(A, filters)
          /\ IdxSet(results) # IdxSet(filter_dataframe(app, df, A))

---------------------------------------------------------------------------
(* C5 *)

\* C5: with every select box at "Any", every text box empty and the age
\* inputs at [0,0], the run returns the loaded table: its columns, its rows
\* and their order.
C5_NoOpFilterSet ==
    (/\ \A k \in StringKeys : ~Active(filters[k])
     /\ filters.min_age = 0 /\ filters.max_age = 0)
    => /\ results.exc = ""
       /\ results.cols = df.cols
       /\ results.rows = df.rows

---------------------------------------------------------------------------
(* C6 *)

\* some non-blank part of the cell, split on ";", is the criterion, both
\* trimmed and compared without case
CarerHasPart(cell, c) ==
    /\ cell.k = "str"
    /\ \E part \in Range(SplitSemi(cell.s)) :
          Strip(part) # <<>> /\ Lower(Strip(part)) = Lower(Strip(c))

\* C6: in App4 and App5, with a non-blank carer criterion other than "None" on a
\* resolved carer column and nothing else filtering, a row is kept if and
\* only if the criterion is one of the parts of its carer cell.
C6_CarerMembership ==
    (/\ app \in {"App4", "App5"}
     /\ Active(filters.carer)
     /\ Strip(filters.carer) # <<>>
     /\ Lower(filters.carer) # S_none
     /\ filters.carer_col \in Cols(df)
     /\ OnlyActive(filters, {"carer"}))
    => \A i \in 1..Len(df.rows) :
          Kept(df.rows[i]) <=> CarerHasPart(df.rows[i].cells[filters.carer_col], filters.carer)

---------------------------------------------------------------------------
(* C7 *)

\* C7: in App4 and App5, with a range min_age <= max_age other than [0,0]
\* on a resolved age column and nothing else filtering, a row is kept if
\* and only if its age cell coerces to a number v with
\* min_age <= v <= max_age.
C7_AgeRangeInclusive ==
    (/\ app \in {"App4", "App5"}
     /\ filters.age_col \in Cols(df)
     /\ filters.min_age <= filters.max_age
     /\ ~(filters.min_age = 0 /\ filters.max_age = 0)
     /\ \A k \in StringKeys : ~Active(filters[k]))
    => \A i \in 1..Len(df.rows) :
          LET v == ToNumeric(df.rows[i].cells[filters.age_col])
          IN Kept(df.rows[i])
             <=> (v.k = "num" /\ filters.min_age <= v.n /\ v.n <= filters.max_age)

\* a row whose age is max_age is kept and a row whose age is min_age - 1
\* is dropped
C7_Witness ==
    /\ app = "App4"
    /\ filters.age_col \in Cols(df)
    /\ 0 < filters.min_age /\ filters.min_age < filters.max_age
    /\ \A k \in StringKeys : ~Active(filters[k])
    /\ \E i, j \in 1..Len(df.rows) :
          /\ df.rows[i].cells[filters.age_col] = Num(filters.max_age)
          /\ Kept(df.rows[i])
          /\ df.rows[j].cells[filters.age_col] = Num(filters.min_age - 1)
          /\ ~Kept(df.rows[j])

---------------------------------------------------------------------------
(* C8 *)

\* C8: in every script, with the age inputs at [0,0] the run returns the
\* rows it would return with no age column resolved.
C8_ZeroZeroDisables ==
    (filters.min_age = 0 /\ filters.max_age = 0 /\ results.exc = "")
    => results.rows = filter_dataframe(app, df, [filters EXCEPT !.age_col = PyNone]).rows

---------------------------------------------------------------------------
(* C9 *)

ExactKeys == {"gender", "ethnicity", "sexuality"}

ColFor(f, k) ==
    CASE k = "gender" -> f.gender_col
      [] k = "ethnicity" -> f.ethnicity_col
      [] k = "sexuality" -> f.sexuality_col
      [] k = "name_search" -> f.name_col
      [] k = "expertise_search" -> f.expertise_col

\* C9: in App4 and App5, with an active gender, ethnicity or sexuality
\* criterion c on a resolved column and nothing else filtering, a row is
\* kept if and only if its cell is present and trim(lower(cell)) =
\* trim(lower(c)); a missing cell is dropped whatever c is.
C9_ExactMatchPresentCell ==
    app \in {"App4", "App5"}
    => \A k \in ExactKeys \cap Widgets(app) :
          (/\ Active(filters[k])
           /\ ColFor(filters, k) \in Cols(df)
           /\ OnlyActive(filters, {k}))
          => \A i \in 1..Len(df.rows) :
                LET cell == df.rows[i].cells[ColFor(filters, k)]
                IN Kept(df.rows[i])
                   <=> (cell.k = "str" /\ Strip(Lower(cell.s)) = Strip(Lower(filters[k])))

---------------------------------------------------------------------------
(* C10 *)

SearchKeys == {"name_search", "expertise_search"}

\* C10: in App4 and App5, with a non-empty name or expertise search on a
\* resolved column and nothing else filtering, a row is kept if and only
\* if its cell is present and the lowercased search occurs in the
\* lowercased cell; a missing cell is dropped whatever the search is.
C10_SubstringPresentCell ==
    app \in {"App4", "App5"}
    => \A k \in SearchKeys \cap Widgets(app) :
          (/\ Truthy(filters[k])
           /\ ColFor(filters, k) \in Cols(df)
           /\ OnlyActive(filters, {k}))
          => \A i \in 1..Len(df.rows) :
                LET cell == df.rows[i].cells[ColFor(filters, k)]
                IN Kept(df.rows[i])
                   <=> (cell.k = "str" /\ IsSubstring(Lower(filters[k]), Lower(cell.s)))

---------------------------------------------------------------------------
(* C11 *)

\* the text the disease filter searches in: the cell as text, lowercased
DiseaseText(cell) == Lower(AsStr(cell))

\* C11: in App4 and App5, with an active disease criterion k on a non-empty
\* list of disease columns and nothing else filtering, a row is kept if and
\* only if lower(trim(k)) occurs as a substring of the lowercased text of
\* its cell in at least one of the disease columns.
C11_DiseaseSubstring ==
    (/\ app \in {"App4", "App5"}
     /\ Active(filters.disease_area)
     /\ filters.disease_cols # <<>>
     /\ OnlyActive(filters, {"disease_area"}))
    => \A i \in 1..Len(df.rows) :
          Kept(df.rows[i])
          <=> \E c \in Range(filters.disease_cols) :
                 IsSubstring(Lower(Strip(filters.disease_area)),
                             DiseaseText(df.rows[i].cells[c]))

---------------------------------------------------------------------------
(* C12 *)

\* the filters with the disease field of all three scripts on one column:
\* disease_col (App) and disease_cols (App4, App5) name the same column
SameDiseaseColumn(f) ==
    IF f.disease_col # PyNone THEN [f EXCEPT !.disease_cols = <<f.disease_col>>]
    ELSE IF Len(f.disease_cols) = 1 THEN [f EXCEPT !.disease_col = f.disease_cols[1]]
    ELSE [f EXCEPT !.disease_area = S_Any, !.disease_cols = <<>>]

\* the criteria are on fields all three scripts accept, each on a column of
\* the table
CommonFieldsOnly(d, f) ==
    /\ ~Active(f.carer) /\ ~Active(f.sexuality) /\ ~Truthy(f.expertise_search)
    /\ Active(f.disease_area) => f.disease_col \in Cols(d)
    /\ Active(f.gender) => f.gender_col \in Cols(d)
    /\ Active(f.ethnicity) => f.ethnicity_col \in Cols(d)

\* C12: for criteria on the fields all three scripts accept (disease,
\* gender, ethnicity, age range, name search), mapped to the same
\* columns, the filter_dataframe of App, App4 and App5 return the same
\* rows in the same order.
C12_VariantsAgree ==
    LET f == SameDiseaseColumn(filters)
    IN CommonFieldsOnly(df, f)
       => /\ filter_dataframeA(df, f).exc = ""
          /\ filter_dataframeA(df, f).rows = filter_dataframe4(df, f).rows
          /\ filter_dataframe4(df, f).rows = filter_dataframe5(df, f).rows

---------------------------------------------------------------------------
(* C13 *)

\* the position of the leftmost header of hs whose lowercased trimmed form is k
FirstOccurrence(hs, k) ==
    CHOOSE i \in 1..Len(hs) :
       /\ Strip(Lower(hs[i])) = k
       /\ \A j \in 1..Len(hs) : Strip(Lower(hs[j])) = k => i <= j

\* C13: once normalize_cols has run, the lookup maps the lowercase form of
\* every header to the leftmost header of the table with that lowercase
\* form, also when two headers share it.
C13_FirstHeaderWins ==
    pc # "loaded"
    => \A i \in 1..Len(df.cols) :
          load.col_map[Strip(Lower(df.cols[i]))]
             = df.cols[FirstOccurrence(df.cols, Strip(Lower(df.cols[i])))]

(* C14 *)

\* the header the lookup gives the first candidate, in list order, whose
\* lowercased trimmed form is a key of the lookup; None without such a
\* candidate
FirstMatch(col_map, names) ==
    LET hits == {i \in 1..Len(names) : Strip(Lower(names[i])) \in DOMAIN col_map}
    IN IF hits = {} THEN PyNone
       ELSE col_map[Strip(Lower(names[CHOOSE i \in hits : \A j \in hits : i <= j]))]

\* C14: in each of the three scripts, every field resolved with get_col is
\* the header mapped by the first candidate of its list whose lowercased
\* trimmed form is a key of the lookup, and None when there is no such
\* candidate.
C14_GetColResolver ==
    pc \notin {"loaded", "normalized"}
    => \A field \in DOMAIN Candidates(app) :
          load.cols[field] = FirstMatch(load.col_map, Candidates(app)[field])

(* C15 *)

NeitherResolved == ~Truthy(load.cols.name_col) /\ ~Truthy(load.cols.email_col)

PastRequiredCheck == pc \notin {"loaded", "normalized", "resolved"}

\* C15: when neither the name nor the email field resolved, the run is
\* stopped at the check with an error text in which every header of the
\* table occurs; no option list has been built, filter_dataframe has not
\* been called and there is no result.
C15_AbortWithoutNameEmail ==
    (PastRequiredCheck /\ NeitherResolved)
    => /\ pc = "stopped"
       /\ load.error # NotYet
       /\ \A i \in 1..Len(df.cols) : IsSubstring(df.cols[i], load.error)
       /\ load.options = NotYet
       /\ filters = NotYet
       /\ results = NotYet

C15_Witness ==
    /\ pc = "stopped"
    /\ NeitherResolved
    /\ Len(df.cols) >= 2
    /\ df.rows # <<>>

(* C16 *)

\* the call of the last run got as far as adding the helper column of the
\* age step
AgeHelperAdded ==
    /\ pc = "filtered"
    /\ filters.age_col \in Cols(df)
    /\ df.rows # <<>>
    /\ app = "App" \/ (filters.min_age <= filters.max_age
                       /\ ~(filters.min_age = 0 /\ filters.max_age = 0))

\* C16: after a call of filter_dataframe the table of the caller is the
\* table that was given: the same columns, the helper column of the age
\* step not among them, and the same rows with the same cells.
C16_InputNotMutated ==
    pc = "filtered"
    => /\ results.arg = df
       /\ \A c \in Cols(results.arg) : c \notin {filters.age_col \o S_num_temp, filters.age_col \o S_num}

C16_Witness ==
    /\ AgeHelperAdded
    /\ app \in {"App", "App4"}
    /\ results.exc = ""
    /\ Len(results.rows) < Len(df.rows)

(* C17 *)

\* rs is a subsequence of xs: its rows are rows of xs, each taken once, in
\* the order they have in xs
IsSubsequence(rs, xs) ==
    \E g \in [1..Len(rs) -> 1..Len(xs)] :
       /\ \A i, j \in 1..Len(rs) : i < j => g[i] < g[j]
       /\ \A i \in 1..Len(rs) : rs[i] = xs[g[i]]

\* C17: the rows a call of filter_dataframe returns are a subsequence of
\* the rows of the table it was given: each is a row of the table with the
\* cells it has there, none occurs twice, and they keep their order.
C17_RowsAreSubsequence ==
    (pc = "filtered" /\ results.exc = "")
    => IsSubsequence(results.rows, df.rows)

C17_Witness ==
    /\ pc = "filtered"
    /\ app \in {"App4", "App5"}
    /\ results.exc = ""
    /\ Active(filters.disease_area)
    /\ Len(filters.disease_cols) = 2
    /\ Len(results.rows) = 2
    /\ results.rows[1] # results.rows[2]

(* C20 *)

SingleColumnFields == {"gender", "ethnicity", "sexuality"}

\* the texts of the non-null cells of the column mapped to select box k; no
\* text when no column of the table is mapped to it
ObservedValues(d, f, k) ==
    LET col == ColFor(f, k)
    IN IF col \in Cols(d)
       THEN {AsStr(d.rows[i].cells[col]) : i \in {j \in 1..Len(d.rows) : d.rows[j].cells[col] # NaN}}
       ELSE {}

\* C20: the option list of a single-column field (gender, ethnicity,
\* sexuality) is "Any" followed by the distinct non-null values of the
\* column mapped to the field, each once, in ascending order; it is just
\* "Any" when no column is mapped or the column has no value, so that no
\* value is offered that does not occur in the table.
C20_SingleColumnOptions ==
    pc = "filtered"
    => \A k \in SingleColumnFields \cap DOMAIN load.options :
          LET opts == load.options[k]
              rest == Tail(opts)
          IN /\ opts[1] = S_Any
             /\ Range(rest) = ObservedValues(df, filters, k)
             /\ \A i, j \in 1..Len(rest) : i < j => StrLess(rest[i], rest[j])

(* C18 *)

\* the cells of merged row n that come from the columns of PECD, and the
\* others
PrimaryPart(n) == SubSeq(df.rows[n].cells, 1, Len(load.df_pecd.cols))

\* C18: the merged table has one row for every row of PECD, in the order of
\* PECD and with its cells, whatever the EDI table holds, also when an
\* identifier occurs in several rows of EDI.
C18_OneRowPerPrimaryRow ==
    pc = "ordered"
    => /\ Len(df.rows) = Len(load.df_pecd.rows)
       /\ \A n \in 1..Len(df.rows) : PrimaryPart(n) = load.df_pecd.rows[n]

(* C19 *)

\* C19: in the merged table the columns of PECD come first, in their order
\* and under their names; every column after them has the label of a
\* column of EDI, with the suffix "_EDI" when PECD has a column of that
\* label; and no two columns have one label.
C19_MergedColumns ==
    pc = "ordered"
    => /\ Len(df.cols) >= Len(load.df_pecd.cols)
       /\ SubSeq(df.cols, 1, Len(load.df_pecd.cols)) = load.df_pecd.cols
       /\ \A i \in (Len(load.df_pecd.cols) + 1)..Len(df.cols) :
             \E c \in Range(load.df_edi.cols) :
                df.cols[i] = IF c \in Range(load.df_pecd.cols) THEN c \o S_EDI ELSE c
       /\ Distinct(df.cols)

---------------------------------------------------------------------------
(* C21 *)

\* the distinct non-empty trimmed parts of the carer cells of table d
CarerParts(d, col) ==
    {Strip(p) : p \in UNION {Range(SplitSemi(AsStr(d.rows[i].cells[col]))) :
                               i \in {j \in 1..Len(d.rows) : d.rows[j].cells[col].k # "nan"}}}
    \ {<<>>}

\* C21: in App4, with a resolved carer column, the carer option list is
\* "Any" followed by the distinct non-empty trimmed parts of the carer
\* cells split on ";", and it holds "None" if and only if some row's carer
\* cell is missing, blank or "none" in any letter case.
C21_CarerOptionList ==
    (app = "App4" /\ pc = "filtered" /\ filters.carer_col \in Cols(df))
    => /\ Head(load.options.carer) = S_Any
       /\ Range(Tail(load.options.carer)) \ {S_None} = CarerParts(df, filters.carer_col) \ {S_None}
       /\ S_None \in Range(load.options.carer)
          <=> \E i \in 1..Len(df.rows) : CarerCellIsNone(df.rows[i].cells[filters.carer_col])

---------------------------------------------------------------------------
(* C22 *)

\* C22: normalize_cols applied to its own output returns the same headers,
\* rows and lookup as applied once, and the table it returns has the rows
\* and the cell values of the table it was given, column by column.
C22_NormalizeIdempotent ==
    [][Normalize =>
         /\ normalize_cols(df').df = df'
         /\ normalize_cols(df').col_map = load'.col_map
         /\ Len(df'.cols) = Len(df.cols)
         /\ Len(df'.rows) = Len(df.rows)
         /\ \A i \in 1..Len(df.rows) :
               /\ df'.rows[i].idx = df.rows[i].idx
               /\ \A j \in 1..Len(df.cols) :
                     df'.rows[i].cells[df'.cols[j]] = df.rows[i].cells[df.cols[j]]]_vars

\* a table with a row has been normalized, and a header of it was stripped
C22_Witness ==
    /\ pc = "normalized"
    /\ df.rows # <<>>
    /\ <<"E", "m", "a", "i", "l">> \in Range(df.cols)

---------------------------------------------------------------------------
(* C23 *)

\* C23: in App4 and App5 a run gets past the sign-in to the loading of the
\* tables only if the session's token_result has an access_token and the
\* e-mail of its id-token claims is in ALLOWED_EMAILS; in every other run
\* no table is loaded.
C23_AccessGate ==
    /\ pc \in {"validated", "portal"}
       => /\ "token_result" \in DOMAIN load.session_state
          /\ "access_token" \in DOMAIN load.session_state["token_result"]
          /\ "id_token_claims" \in DOMAIN load.session_state["token_result"]
          /\ "preferred_username" \in DOMAIN load.session_state["token_result"].id_token_claims
          /\ load.session_state["token_result"].id_token_claims.preferred_username
                \in Range(load.ALLOWED_EMAILS)
    /\ pc \in {"run", "login", "authenticated", "failed", "token", "raised", "denied", "validated"}
       => df = NotYet

\* a signed-in run has loaded the tables
C23_Witness == pc = "portal" /\ load.redeemed = 1 /\ Len(df.rows) = 1

---------------------------------------------------------------------------
(* C24 *)

\* C24: in one session of App4 or App5, whatever the number of reruns with
\* the same code in the query string, the code is redeemed at most once.
C24_RedeemedAtMostOnce == load.redeemed <= 1

---------------------------------------------------------------------------
(* C25 *)

\* C25: after "Clear All Filters", from any selection, every widget of App4
\* and App5 has its default value and the call of filter_dataframe that
\* follows returns every row of the loaded table, whatever its age cell.
C25_ResetReturnsWholeTable ==
    [][reset_filters =>
         /\ \A k \in Widgets(app) : filters'[k] = Defaults(app)[k]
         /\ results'.rows = df.rows]_vars

---------------------------------------------------------------------------
(* C26 *)

\* option o of select box k of App4 comes from the cell of row r
DerivedFrom(r, f, k, o) ==
    CASE k = "disease_area" ->
            \E i \in 1..Len(f.disease_cols) :
               r.cells[f.disease_cols[i]].k # "nan" /\ AsStr(r.cells[f.disease_cols[i]]) = o
      [] k = "carer" ->
            /\ f.carer_col \in DOMAIN r.cells
            /\ \/ /\ r.cells[f.carer_col].k # "nan"
                  /\ \E part \in Range(SplitSemi(AsStr(r.cells[f.carer_col]))) : Strip(part) = o
               \/ /\ o = S_None
                  /\ \/ r.cells[f.carer_col].k = "nan"
                     \/ Lower(Strip(AsStr(r.cells[f.carer_col]))) = S_none
      [] OTHER ->
            /\ ColFor(f, k) \in DOMAIN r.cells
            /\ r.cells[ColFor(f, k)].k # "nan"
            /\ AsStr(r.cells[ColFor(f, k)]) = o

\* C26: in App4, with one option other than "Any" selected in one select
\* box, nothing else filtering and the age range [0,0], the result is not
\* empty and holds every row from whose cell the option comes, the carer
\* option "None" included.
C26_OptionRoundTrip ==
    (app = "App4" /\ pc = "filtered" /\ filters.min_age = 0 /\ filters.max_age = 0)
    => \A k \in SelectKeys :
          (Active(filters[k]) /\ OnlyActive(filters, {k}))
          => /\ results.rows # <<>>
             /\ \A i \in 1..Len(df.rows) :
                   DerivedFrom(df.rows[i], filters, k, filters[k]) => Kept(df.rows[i])

====
